---------------------------- MODULE Spec2Model ----------------------------
(***************************************************************************)
(* EIP93 cipher offload (src/src/eip93-cipher.c): SA record construction,  *)
(* scatter/gather alignment, descriptor production, CTR counter-overflow   *)
(* split and result reaping.                                               *)
(*                                                                         *)
(* 32-bit unsigned values (u32) are held as their two's-complement         *)
(* residue: an integer x < 0 stands for the u32 value x + 2^32.  Sums and  *)
(* differences of residues are the u32 sums and differences as long as     *)
(* they stay inside the residue range, which the inputs used here do.      *)
(***************************************************************************)
EXTENDS Integers, Sequences, FiniteSets, TLC

VARIABLES
    fn,     \* the call in progress of a single-function specification
    ctx,    \* ctx[t]: struct mtk_cipher_ctx of transform t
    dev,    \* struct mtk_device: ring 0, its SA slots, counters and registers
    reqs    \* the requests handed to the driver, in order of submission

vars == << fn, ctx, dev, reqs >>

-----------------------------------------------------------------------------
(* Bounds of the model *)

\* longest scatter/gather list drawn as an input
MaxSegs == 3

\* number of setkey calls made on one transform
MaxSetkey == 2

-----------------------------------------------------------------------------
(* u32 arithmetic on residues *)

\* unsigned a < b
ULt(a, b) ==
    IF (a >= 0) = (b >= 0) THEN a < b ELSE a >= 0

\* unsigned a <= b
ULe(a, b) == a = b \/ ULt(a, b)

\* min() of two unsigned values
UMin(a, b) == IF ULt(a, b) THEN a ELSE b

\* bitwise AND with a non-negative mask y
RECURSIVE BitAnd(_, _)
BitAnd(x, y) ==
    IF y = 0 THEN 0
    ELSE (x % 2) * (y % 2) + 2 * BitAnd(x \div 2, y \div 2)

\* IS_ALIGNED(x, a): (x & (a - 1)) == 0
IS_ALIGNED(x, a) == BitAnd(x, a - 1) = 0

\* the element of a one-element set
Only(S) == CHOOSE x \in S : TRUE

-----------------------------------------------------------------------------
(* Scatter/gather lists: a sequence of segments, each with its bus address *)
(* (addr), its offset inside the page (offset) and its byte length.        *)

Seg(a, o, l) == [addr |-> a, offset |-> o, length |-> l]

\* sg_next() on the tail of a list: Tail; the NULL list is << >>

\* bytes held by the first k segments of a list
RECURSIVE SgBytes(_, _)
SgBytes(sg, k) == IF k = 0 THEN 0 ELSE SgBytes(sg, k - 1) + sg[k].length

\* the segment in which the first len bytes of the list end (the cut point):
\* the first segment whose running total reaches len; 0 if the list is too short
CutSeg(sg, len) ==
    IF \E k \in 1..Len(sg) : SgBytes(sg, k) >= len
    THEN CHOOSE k \in 1..Len(sg) :
            /\ SgBytes(sg, k) >= len
            /\ \A j \in 1..(k - 1) : SgBytes(sg, j) < len
    ELSE 0

\* mtk_is_sg_aligned without the cache-line check of the segment offsets
IsSgAligned_NoOffsetCheck(sg, len, blksz) ==
    LET RECURSIVE walk(_, _)
        walk(s, l) ==
            IF s = << >> THEN FALSE
            ELSE IF ULe(l, Head(s).length) THEN IS_ALIGNED(l, blksz)
            ELSE IF ~IS_ALIGNED(Head(s).length, blksz) THEN FALSE
            ELSE walk(Tail(s), l - Head(s).length)
    IN  walk(sg, len)

\* mtk_is_sg_aligned(sg, len, blksz)
mtk_is_sg_aligned(sg, len, blksz) ==
    LET RECURSIVE walk(_, _)
        walk(s, l) ==
            IF s = << >> THEN FALSE
            ELSE IF ~IS_ALIGNED(Head(s).offset, 32) THEN FALSE
            ELSE IF ULe(l, Head(s).length) THEN IS_ALIGNED(l, blksz)
            ELSE IF ~IS_ALIGNED(Head(s).length, blksz) THEN FALSE
            ELSE walk(Tail(s), l - Head(s).length)
    IN  walk(sg, len)

-----------------------------------------------------------------------------
(* Algorithm templates (struct mtk_alg_template).  flags is the set of the  *)
(* MTK_* flag bits that are set.                                            *)

AES_BLOCK_SIZE == 16
DES_BLOCK_SIZE == 8
DES3_EDE_BLOCK_SIZE == 8
AES_MIN_KEY_SIZE == 16
AES_MAX_KEY_SIZE == 32
DES_KEY_SIZE == 8
DES3_EDE_KEY_SIZE == 24
CTR_RFC3686_NONCE_SIZE == 4
CTR_RFC3686_IV_SIZE == 8

SkTmpl(f, mn, mx, iv) ==
    [type |-> "skcipher", flags |-> f, min_keysize |-> mn, max_keysize |-> mx, ivsize |-> iv]

AeadTmpl(f, iv) ==
    [type |-> "aead", flags |-> f, min_keysize |-> 0, max_keysize |-> 0, ivsize |-> iv]

Tmpl ==
    [ ecb_des |-> SkTmpl({"ECB", "DES"}, DES_KEY_SIZE, DES_KEY_SIZE, 0),
      cbc_des |-> SkTmpl({"CBC", "DES"}, DES_KEY_SIZE, DES_KEY_SIZE, DES_BLOCK_SIZE),
      ecb_des3_ede |-> SkTmpl({"ECB", "3DES"}, DES3_EDE_KEY_SIZE, DES3_EDE_KEY_SIZE, 0),
      cbc_des3_ede |-> SkTmpl({"CBC", "3DES"}, DES3_EDE_KEY_SIZE, DES3_EDE_KEY_SIZE,
                              DES3_EDE_BLOCK_SIZE),
      ecb_aes |-> SkTmpl({"ECB", "AES"}, AES_MIN_KEY_SIZE, AES_MAX_KEY_SIZE, 0),
      cbc_aes |-> SkTmpl({"CBC", "AES"}, AES_MIN_KEY_SIZE, AES_MAX_KEY_SIZE, AES_BLOCK_SIZE),
      ctr_aes |-> SkTmpl({"CTR", "AES"}, AES_MIN_KEY_SIZE, AES_MAX_KEY_SIZE, AES_BLOCK_SIZE),
      rfc3686_aes |-> SkTmpl({"CTR", "RFC3686", "AES"},
                             AES_MIN_KEY_SIZE + CTR_RFC3686_NONCE_SIZE,
                             AES_MAX_KEY_SIZE + CTR_RFC3686_NONCE_SIZE, CTR_RFC3686_IV_SIZE),
      authenc_hmac_md5_cbc_aes |-> AeadTmpl({"HMAC", "MD5", "CBC", "AES"}, AES_BLOCK_SIZE),
      authenc_hmac_sha1_cbc_aes |-> AeadTmpl({"HMAC", "SHA1", "CBC", "AES"}, AES_BLOCK_SIZE),
      authenc_hmac_sha256_ctr_aes |-> AeadTmpl({"HMAC", "SHA256", "CTR", "AES"}, AES_BLOCK_SIZE),
      authenc_hmac_sha1_rfc3686_aes |->
          AeadTmpl({"HMAC", "SHA1", "CTR", "RFC3686", "AES"}, CTR_RFC3686_IV_SIZE),
      authenc_hmac_sha224_cbc_des |-> AeadTmpl({"HMAC", "SHA224", "CBC", "DES"}, DES_BLOCK_SIZE),
      authenc_hmac_sha256_cbc_des3_ede |->
          AeadTmpl({"HMAC", "SHA256", "CBC", "3DES"}, DES3_EDE_BLOCK_SIZE),
      authenc_hmac_md5_ecb_null |-> AeadTmpl({"HMAC", "MD5"}, 0) ]

Tfms == DOMAIN Tmpl

IS_RFC3686(flags) == "RFC3686" \in flags
IS_HMAC(flags) == "HMAC" \in flags
IS_CBC(flags) == "CBC" \in flags
IS_CTR(flags) == "CTR" \in flags
IS_ENCRYPT(flags) == "ENCRYPT" \in flags
IS_DECRYPT(flags) == "DECRYPT" \in flags
IS_BUSY(flags) == "BUSY" \in flags
IS_HASH_MD5(flags) == "MD5" \in flags

\* flags & MTK_ALG_MASK
AlgOf(flags) ==
    IF "AES" \in flags THEN "AES"
    ELSE IF "3DES" \in flags THEN "3DES"
    ELSE IF "DES" \in flags THEN "DES"
    ELSE "NONE"

\* flags & MTK_HASH_MASK
HashOf(flags) ==
    IF "SHA256" \in flags THEN "SHA256"
    ELSE IF "SHA224" \in flags THEN "SHA224"
    ELSE IF "SHA1" \in flags THEN "SHA1"
    ELSE IF "MD5" \in flags THEN "MD5"
    ELSE "NONE"

\* flags & MTK_MODE_MASK (the RFC3686 bit is not part of the mask)
ModeOf(flags) ==
    IF "ECB" \in flags THEN "ECB"
    ELSE IF "CBC" \in flags THEN "CBC"
    ELSE IF "CTR" \in flags THEN "CTR"
    ELSE "NONE"

-----------------------------------------------------------------------------
(* SA record (struct saRecord_s) *)

\* byte i of the key material numbered k
KeyByte(k, i) == 64 * k + i

\* a key blob of n bytes
Key(k, n) == [i \in 1..n |-> KeyByte(k, i)]

\* the record as kzalloc() leaves it
SaZero ==
    [ ivSource |-> 0, saveIv |-> 0, opGroup |-> 0, opCode |-> 0, cipher |-> 0,
      aesKeyLen |-> 0, saveHash |-> 0, hash |-> 0, hdrProc |-> 0, padType |-> 0,
      extPad |-> 0, scPad |-> 0, cipherMode |-> 0, byteOffset |-> 0,
      hashCryptOffset |-> 0, digestLength |-> 0, copyPayload |-> 0, hmac |-> 0,
      copyDigest |-> 0, copyHeader |-> 0, direction |-> 0, seqNumCheck |-> 0,
      saKey |-> [i \in 1..AES_MAX_KEY_SIZE |-> 0], saNonce |-> << 0, 0, 0, 0 >>,
      saIDigest |-> << >>, saODigest |-> << >> ]

\* memcpy(saRecord->saKey, key, keylen)
CopyKey(saKey, key, keylen) ==
    [i \in 1..AES_MAX_KEY_SIZE |-> IF i <= keylen THEN key[i] ELSE saKey[i]]

\* a record builder whose default branch of the hash switch leaves saveHash set
mtk_ctx_saRecord_SaveHashKept(sa, key, nonce, keylen, flags) ==
    LET alg == AlgOf(flags)
        hash == HashOf(flags)
        mode == ModeOf(flags)
    IN  [ sa EXCEPT
            !.ivSource = 2, !.saveIv = 1, !.opGroup = 0, !.opCode = 0,
            !.cipher = CASE alg = "AES" -> 3 [] alg = "3DES" -> 1
                         [] alg = "DES" -> 0 [] OTHER -> 15,
            !.aesKeyLen = IF alg = "AES" THEN keylen \div 8 ELSE @,
            !.saveHash = 1,
            !.hash = CASE hash = "SHA256" -> 3 [] hash = "SHA224" -> 2
                       [] hash = "SHA1" -> 1 [] hash = "MD5" -> 0 [] OTHER -> 15,
            !.hdrProc = 0, !.padType = 3, !.extPad = 0, !.scPad = 0,
            !.cipherMode = CASE mode = "ECB" -> 0 [] mode = "CBC" -> 1
                             [] mode = "CTR" -> 2 [] OTHER -> @,
            !.byteOffset = 0, !.hashCryptOffset = 0, !.digestLength = 0,
            !.copyPayload = 0,
            !.hmac = IF IS_HMAC(flags) THEN 1 ELSE 0,
            !.copyDigest = IF IS_HMAC(flags) THEN 1 ELSE 0,
            !.copyHeader = IF IS_HMAC(flags) THEN 1 ELSE 0,
            !.saKey = CopyKey(@, key, keylen),
            !.saNonce = IF IS_RFC3686(flags) THEN nonce ELSE @,
            !.seqNumCheck = 0 ]

\* mtk_ctx_saRecord(ctx, key, nonce, keylen, flags), on the record sa = ctx->sa
mtk_ctx_saRecord(sa, key, nonce, keylen, flags) ==
    LET alg == AlgOf(flags)
        hash == HashOf(flags)
        mode == ModeOf(flags)
    IN  [ sa EXCEPT
            !.ivSource = 2, !.saveIv = 1, !.opGroup = 0, !.opCode = 0,
            !.cipher = CASE alg = "AES" -> 3 [] alg = "3DES" -> 1
                         [] alg = "DES" -> 0 [] OTHER -> 15,
            !.aesKeyLen = IF alg = "AES" THEN keylen \div 8 ELSE @,
            !.saveHash = IF hash = "NONE" THEN 0 ELSE 1,
            !.hash = CASE hash = "SHA256" -> 3 [] hash = "SHA224" -> 2
                       [] hash = "SHA1" -> 1 [] hash = "MD5" -> 0 [] OTHER -> 15,
            !.hdrProc = 0, !.padType = 3, !.extPad = 0, !.scPad = 0,
            !.cipherMode = CASE mode = "ECB" -> 0 [] mode = "CBC" -> 1
                             [] mode = "CTR" -> 2 [] OTHER -> @,
            !.byteOffset = 0, !.hashCryptOffset = 0, !.digestLength = 0,
            !.copyPayload = 0,
            !.hmac = IF IS_HMAC(flags) THEN 1 ELSE 0,
            !.copyDigest = IF IS_HMAC(flags) THEN 1 ELSE 0,
            !.copyHeader = IF IS_HMAC(flags) THEN 1 ELSE 0,
            !.saKey = CopyKey(@, key, keylen),
            !.saNonce = IF IS_RFC3686(flags) THEN nonce ELSE @,
            !.seqNumCheck = 0 ]

-----------------------------------------------------------------------------
(* setkey *)

\* struct mtk_cipher_ctx after cra_init: a zeroed SA record; fb tells whether
\* crypto_alloc_sync_skcipher() gave a fallback (skcipher only)
CtxInit(fb) == [sa |-> SaZero, fallback |-> fb]

\* aes_expandkey(): 0 for a key of 16, 24 or 32 bytes, -EINVAL otherwise
aes_expandkey(keylen) == IF keylen \in {16, 24, 32} THEN "OK" ELSE "EINVAL"

\* mtk_skcipher_setkey(ctfm, key, len) on context c of template tmpl.  k numbers
\* the key material; weak is the verdict of verify_skcipher_des_key /
\* verify_skcipher_des3_key, fbfail that of the fallback's own setkey.
mtk_skcipher_setkey(c, tmpl, k, len, weak, fbfail) ==
    LET flags == tmpl.flags
        keylen == IF IS_RFC3686(flags) THEN len - CTR_RFC3686_NONCE_SIZE ELSE len
        key == Key(k, len)
        nonce == IF IS_RFC3686(flags)
                 THEN [i \in 1..CTR_RFC3686_NONCE_SIZE |-> key[keylen + i]]
                 ELSE << 0, 0, 0, 0 >>
        alg == AlgOf(flags)
        ret == CASE alg = "AES" -> aes_expandkey(keylen)
                 [] alg = "DES" -> IF weak THEN "EINVAL" ELSE "OK"
                 [] alg = "3DES" -> IF keylen # DES3_EDE_KEY_SIZE THEN "EINVAL"
                                    ELSE IF weak THEN "EINVAL" ELSE "OK"
                 [] OTHER -> "OK"
        set == [c EXCEPT !.sa = mtk_ctx_saRecord(@, key, nonce, keylen, flags)]
    IN  IF len = 0 THEN [ret |-> "EINVAL", ctx |-> c]
        ELSE IF ret # "OK" THEN [ret |-> ret, ctx |-> c]
        ELSE IF c.fallback /\ fbfail THEN [ret |-> "EINVAL", ctx |-> set]
        ELSE [ret |-> "OK", ctx |-> set]

\* the digest state exported by the software hash for one HMAC pad
PadDigest(pad, hash, ak, authkeylen) == << pad, hash, ak, authkeylen >>

\* mtk_aead_setkey(ctfm, key, keylen) on context c of template tmpl.  The blob
\* holds an authentication key (numbered ak, authkeylen bytes) followed by the
\* cipher key (numbered k, enckeylen bytes); env is what the collaborators do:
\* "badblob" (crypto_authenc_extractkeys fails), "nomem" (kcalloc fails),
\* "hashfail" (a crypto_shash_* call fails) or "ok".  The blob is never shorter
\* than its 8-byte header, so the keylen < CTR_RFC3686_NONCE_SIZE return is not
\* taken once the blob parsed.
mtk_aead_setkey(c, tmpl, k, ak, enckeylen, authkeylen, env) ==
    LET flags == tmpl.flags
        enckey == Key(k, enckeylen)
        \* the last four bytes of the blob are the last four bytes of the cipher key
        nonce == [i \in 1..CTR_RFC3686_NONCE_SIZE |->
                     KeyByte(k, enckeylen - CTR_RFC3686_NONCE_SIZE + i)]
        hash == HashOf(flags)
    IN  IF env = "badblob" THEN [ret |-> "EINVAL", ctx |-> c]
        ELSE IF enckeylen > AES_MAX_KEY_SIZE THEN [ret |-> "EINVAL", ctx |-> c]
        ELSE IF env = "nomem" THEN [ret |-> "ENOMEM", ctx |-> c]
        ELSE IF env = "hashfail" THEN [ret |-> "EHASH", ctx |-> c]
        ELSE [ret |-> "OK",
              ctx |-> [c EXCEPT !.sa =
                         [mtk_ctx_saRecord(@, enckey, nonce, enckeylen, flags) EXCEPT
                            !.saIDigest = PadDigest("ipad", hash, ak, authkeylen),
                            !.saODigest = PadDigest("opad", hash, ak, authkeylen)]]]

\* every transform after cra_init
InitCtx == [t \in Tfms |-> CtxInit(FALSE)]

-----------------------------------------------------------------------------
(* Descriptor ring (struct mtk_ring): command ring cdr and result ring rdr, *)
(* each with a write and a read index over size slots, the command and     *)
(* result descriptors, and the side table dma_buf.                          *)

\* a command descriptor nobody has written
CdescZero ==
    [srcAddr |-> 0, dstAddr |-> 0, saAddr |-> 0, stateAddr |-> 0, length |-> 0,
     hostReady |-> 0]

\* a result descriptor as mtk_add_rdesc hands it out: peCrtlStat.peReady (ready1),
\* peLength.peReady (ready2) and peCrtlStat.errStatus cleared
RdescZero == [ready1 |-> 0, ready2 |-> 0, errStatus |-> 0]

BufZero == [flags |-> {}, req |-> 0, saPointer |-> 0]

\* an empty ring of n slots whose pointers stand at slot w
RingNew(n, w) ==
    [size |-> n,
     cdr |-> [write |-> w, read |-> w],
     rdr |-> [write |-> w, read |-> w],
     cdesc |-> [i \in 0..(n - 1) |-> CdescZero],
     rdesc |-> [i \in 0..(n - 1) |-> RdescZero],
     dma_buf |-> [i \in 0..(n - 1) |-> BufZero]]

\* mtk_ring_curr_wptr_index(mtk)
mtk_ring_curr_wptr_index(ring) == ring.cdr.write

\* a ring that never refuses a descriptor
RingFull_Never(r, size) == FALSE

\* a ring is full when one more write would make write meet read
RingFull(r, size) == (r.write + 1) % size = r.read

\* a ring is empty when read has caught up with write
RingEmpty(r) == r.write = r.read

\* the write index advanced by one slot
NextWptr(r, size) == [r EXCEPT !.write = (@ + 1) % size]

\* the read index advanced by one slot
NextRptr(r, size) == [r EXCEPT !.read = (@ + 1) % size]

\* descriptors issued and not yet retired
RingCount(ring) == (ring.cdr.write - ring.cdr.read + ring.size) % ring.size

-----------------------------------------------------------------------------
(* Device (struct mtk_device) and request context (struct mtk_cipher_reqctx) *)

\* ring slots of the device
MTK_RING_SIZE == 5

\* ring.requests above which a submission is refused or backlogged
MTK_RING_BUSY == 1

\* the most mtk_skcipher_crypt programs as pending count: the 32 of
\* min_t(int, mtk->ring[0].requests, 32), brought down with the ring
SkPendingMax == 1

\* an SA state slot nobody has written: sixteen zero bytes of stateIv
IvZero == [i \in 1..AES_BLOCK_SIZE |-> 0]

\* the device with an empty ring of n slots whose pointers stand at slot w:
\* ring.requests, ring.busy, the command count the engine still has to work off
\* (PE_CD_COUNT), the result count it reports (PE_RD_COUNT), the pending count
\* last written to PE_RING_THRESH, the slot the engine works on next (hwptr) and
\* the result descriptors whose length word it has not written yet (late)
DevNew(n, w) ==
    [ring |-> RingNew(n, w),
     saRecord |-> [i \in 0..(n - 1) |-> SaZero],
     saState |-> [i \in 0..(n - 1) |-> IvZero],
     requests |-> 0, busy |-> FALSE,
     PE_CD_COUNT |-> 0, PE_RD_COUNT |-> 0, PE_RING_THRESH |-> 0 - 1,
     hwptr |-> w, late |-> {}, oops |-> "ok"]

\* the device of the specifications that do not use it
DevIdle == DevNew(1, 0)

\* a request context before the entry point fills it
RctxZero ==
    [flags |-> {}, textsize |-> 0, assoclen |-> 0, authsize |-> 0, ivsize |-> 0,
     sg_src |-> << >>, sg_dst |-> << >>, src_nents |-> 0, dst_nents |-> 0,
     ctr_src |-> << >>, ctr_dst |-> << >>]

-----------------------------------------------------------------------------
(* mtk_scatter_combine *)

\* the flags of a descriptor that ends a call, with FINISH whatever complete says
DescFlags_FinishOnLast(last, complete) ==
    {"ASYNC"} \cup (IF last THEN {"LAST", "FINISH"} ELSE {})

\* the flags of a descriptor that ends a call, with FINISH in place of LAST
DescFlags_FinishForLast(last, complete) ==
    {"ASYNC"} \cup (IF last /\ complete THEN {"FINISH"} ELSE IF last THEN {"LAST"} ELSE {})

\* the flags of a descriptor when the end of a request is never marked FINISH
DescFlags_NeverFinish(last, complete) ==
    {"ASYNC"} \cup (IF last THEN {"LAST"} ELSE {})

\* struct mtk_desc_buf flags
DescFlags(last, complete) ==
    {"ASYNC"} \cup (IF last THEN {"LAST"} ELSE {})
              \cup (IF last /\ complete THEN {"FINISH"} ELSE {})

\* the bytes of a segment taken without the clamp to the outstanding total
SgRemain_NoClamp(sglen, n) == sglen

\* min(sg_dma_len(sg), n): the bytes of a segment of sglen bytes that belong to
\* the n bytes still outstanding
SgRemain(sglen, n) == UMin(sglen, n)

\* the bus address of a descriptor that always names the start of the segment
DescAddr_NoOffset(addr, offset) == addr

\* cdesc->srcAddr = saddr + offsetin; cdesc->dstAddr = daddr + offsetout
DescAddr(addr, offset) == addr + offset

\* a side-table entry that records the slot of its own descriptor pair
BufEntry_OwnSlot(areq, saPointer, wptr) ==
    [flags |-> {"ASYNC"}, req |-> areq, saPointer |-> wptr]

\* buf = &mtk->ring[0].dma_buf[wptr]; buf->flags = MTK_DESC_ASYNC;
\* buf->req = areq; buf->saPointer = saPointer
BufEntry(areq, saPointer, wptr) ==
    [flags |-> {"ASYNC"}, req |-> areq, saPointer |-> saPointer]

\* the do { ... } while (n) loop of mtk_scatter_combine on the loop state st:
\* the ring, the rest of both lists (Head is the current segment), the locals.
\* It ends with status "ok", or where the code dereferences sg_next() = NULL
\* ("null_deref") or writes through the error pointer of a full command ring
\* ("err_ptr_write").
RECURSIVE CombineLoop(_, _, _, _)
CombineLoop(st, saRecord_base, saState_base, areq) ==
    LET saPointer == st.saPointer
        \* if (nextin) { sgsrc = sg_next(sgsrc); remainin = min(...); ... }
        srcEnd == st.nextin /\ Tail(st.src) = << >>
        s1 == IF st.nextin /\ ~srcEnd
              THEN LET sg == Tail(st.src)
                       rem == SgRemain(Head(sg).length, st.n)
                   IN  IF rem = 0
                       THEN [st EXCEPT !.src = sg, !.remainin = rem, !.skip = TRUE]
                       ELSE [st EXCEPT !.src = sg, !.remainin = rem,
                                       !.saddr = Head(sg).addr, !.offsetin = 0,
                                       !.nextin = FALSE]
              ELSE st
        \* if (nextout) { sgdst = sg_next(sgdst); remainout = min(...); ... }
        dstEnd == ~srcEnd /\ ~s1.skip /\ s1.nextout /\ Tail(s1.dst) = << >>
        s2 == IF ~srcEnd /\ ~s1.skip /\ s1.nextout /\ ~dstEnd
              THEN LET sg == Tail(s1.dst)
                       rem == SgRemain(Head(sg).length, s1.n)
                   IN  IF rem = 0
                       THEN [s1 EXCEPT !.dst = sg, !.remainout = rem, !.skip = TRUE]
                       ELSE [s1 EXCEPT !.dst = sg, !.remainout = rem,
                                       !.daddr = Head(sg).addr, !.offsetout = 0,
                                       !.nextout = FALSE]
              ELSE s1
        \* if (remainin == remainout) ... else if (remainin < remainout) ... else ...
        len == IF ULt(s2.remainout, s2.remainin) THEN s2.remainout ELSE s2.remainin
        s3 == IF s2.remainin = s2.remainout
              THEN [s2 EXCEPT !.nextin = TRUE, !.nextout = TRUE]
              ELSE IF ULt(s2.remainin, s2.remainout)
              THEN [s2 EXCEPT !.offsetout = @ + len, !.remainout = @ - len,
                              !.nextin = TRUE]
              ELSE [s2 EXCEPT !.offsetin = @ + len, !.remainin = @ - len,
                              !.nextout = TRUE]
        \* rdesc = mtk_add_rdesc(); cdesc = mtk_add_cdesc(); cdesc->... = ...;
        \* buf = &dma_buf[wptr]; ...
        ring == s2.ring
        full == RingFull(ring.cdr, ring.size)
        wptr == ring.cdr.write
        written ==
            [ring EXCEPT
               !.rdr = IF RingFull(@, ring.size) THEN @ ELSE NextWptr(@, ring.size),
               !.rdesc = IF RingFull(ring.rdr, ring.size) THEN @
                         ELSE [@ EXCEPT ![ring.rdr.write] = RdescZero],
               !.cdr = NextWptr(@, ring.size),
               !.cdesc = [@ EXCEPT ![wptr] =
                            [srcAddr |-> DescAddr(s2.saddr, s2.offsetin),
                             dstAddr |-> DescAddr(s2.daddr, s2.offsetout),
                             saAddr |-> saRecord_base, stateAddr |-> saState_base,
                             length |-> len, hostReady |-> 1]],
               !.dma_buf = [@ EXCEPT ![wptr] = BufEntry(areq, saPointer, wptr)]]
        s4 == [s3 EXCEPT !.ring = written, !.ndesc_cdr = @ + 1, !.ndesc_rdr = @ + 1,
                         !.n = @ - len, !.wptr = wptr]
    IN  IF srcEnd \/ dstEnd THEN [st EXCEPT !.status = "null_deref"]
        ELSE IF s2.skip
        THEN \* continue; n is not 0 here, so the loop runs again
             Only({ CombineLoop(s, saRecord_base, saState_base, areq) :
                        s \in {[s2 EXCEPT !.skip = FALSE]} })
        ELSE IF full THEN [s2 EXCEPT !.status = "err_ptr_write"]
        ELSE Only({ IF s.n = 0 THEN s
                    ELSE CombineLoop(s, saRecord_base, saState_base, areq) :
                        s \in {s4} })

\* the end of mtk_scatter_combine on the state st the loop left:
\* buf->flags |= MTK_DESC_LAST; if (complete) buf->flags |= MTK_DESC_FINISH;
\* *commands = ndesc_cdr; *results = ndesc_rdr
CombineEnd(st, complete) ==
    IF st.status = "ok"
    THEN [ring |-> [st.ring EXCEPT !.dma_buf[st.wptr].flags = DescFlags(TRUE, complete)],
          commands |-> st.ndesc_cdr, results |-> st.ndesc_rdr, status |-> "ok"]
    ELSE [ring |-> st.ring, commands |-> st.ndesc_cdr, results |-> st.ndesc_rdr,
          status |-> st.status]

\* mtk_scatter_combine(mtk, saRecord_base, saState_base, sgsrc, sgdst, datalen,
\*                     complete, areq, &commands, &results) on the ring
mtk_scatter_combine(ring, saRecord_base, saState_base, sgsrc, sgdst, datalen, complete, areq) ==
    IF sgsrc = << >> \/ sgdst = << >>
    THEN [ring |-> ring, commands |-> 0, results |-> 0, status |-> "null_deref"]
    ELSE
    LET st0 == [ring |-> ring, src |-> sgsrc, dst |-> sgdst,
                n |-> datalen,
                remainin |-> SgRemain(Head(sgsrc).length, datalen),
                remainout |-> SgRemain(Head(sgdst).length, datalen),
                saddr |-> Head(sgsrc).addr, daddr |-> Head(sgdst).addr,
                saPointer |-> mtk_ring_curr_wptr_index(ring),
                offsetin |-> 0, offsetout |-> 0, nextin |-> FALSE, nextout |-> FALSE,
                skip |-> FALSE, ndesc_cdr |-> 0, ndesc_rdr |-> 0, wptr |-> 0,
                status |-> "ok"]
    IN  Only({ CombineEnd(st, complete) :
                 st \in { CombineLoop(s, saRecord_base, saState_base, areq) : s \in {st0} } })

-----------------------------------------------------------------------------
(* IV and counter helpers *)

\* be32_to_cpu of the four bytes b (the u32 they spell, as a residue)
be32_to_cpu(b) ==
    (IF b[1] >= 128 THEN b[1] - 256 ELSE b[1]) * 16777216
        + b[2] * 65536 + b[3] * 256 + b[4]

\* cpu_to_be32: the four bytes, most significant first, of the u32 with residue v
cpu_to_be32(v) ==
    << (v \div 16777216) % 256, (v \div 65536) % 256, (v \div 256) % 256, v % 256 >>

\* crypto_inc(): the big-endian number held in the bytes a, plus one
RECURSIVE crypto_inc(_)
crypto_inc(a) ==
    IF a = << >> THEN << >>
    ELSE LET n == Len(a) IN
         IF a[n] = 255 THEN Append(crypto_inc(SubSeq(a, 1, n - 1)), 0)
         ELSE [a EXCEPT ![n] = @ + 1]

\* a byte read past the end of a buffer
Junk == -1

\* memcpy(iv, reqiv, AES_BLOCK_SIZE): sixteen bytes starting at reqiv
ReadIv(reqiv) ==
    [i \in 1..AES_BLOCK_SIZE |-> IF i <= Len(reqiv) THEN reqiv[i] ELSE Junk]

\* word w (0..3) of a sixteen-byte block
IvWord(iv, w) == SubSeq(iv, 4 * w + 1, 4 * w + 4)

\* DIV_ROUND_UP(n, d) for a u32 n held as a residue
DIV_ROUND_UP(n, d) == (n + d - 1) \div d

-----------------------------------------------------------------------------
(* mtk_send_req *)

\* sg_nents_for_len(sg, len): 0 for len = 0, the number of leading segments
\* that hold len bytes, or -EINVAL (a negative number) when the list is shorter
sg_nents_for_len(sg, len) ==
    IF len = 0 THEN 0
    ELSE IF len < 0 \/ CutSeg(sg, len) = 0 THEN -22
    ELSE CutSeg(sg, len)

\* mtk_make_sg_cpy(): one page-aligned segment of assoclen + textsize + authsize
\* bytes at bus address addr
mtk_make_sg_cpy(addr, rctx) ==
    << Seg(addr, 0, rctx.assoclen + rctx.textsize + rctx.authsize) >>

\* scatterwalk_ffwd(dst, src, len): the list src from byte len on; "null_deref"
\* where the walk reads the length of the segment after the last one
RECURSIVE scatterwalk_ffwd(_, _)
scatterwalk_ffwd(src, len) ==
    IF len = 0 THEN src
    ELSE IF src = << >> THEN "null_deref"
    ELSE IF ULt(len, Head(src).length)
    THEN << Seg(Head(src).addr + len, Head(src).offset + len, Head(src).length - len) >>
            \o Tail(src)
    ELSE scatterwalk_ffwd(Tail(src), len - Head(src).length)

\* the block size of the cipher of flags
BlkSize(flags) ==
    CASE AlgOf(flags) = "AES" -> AES_BLOCK_SIZE
      [] AlgOf(flags) = "DES" -> DES_BLOCK_SIZE
      [] AlgOf(flags) = "3DES" -> DES3_EDE_BLOCK_SIZE
      [] OTHER -> 1

\* the counter-overflow test of mtk_send_req: overflow && end < start
CtrOverflow(flags, iv, totlen_src) ==
    LET blocks == DIV_ROUND_UP(totlen_src, AES_BLOCK_SIZE)
        start == be32_to_cpu(IvWord(iv, 3))
        end == start + blocks - 1
    IN  IS_CTR(flags) /\ ~IS_RFC3686(flags) /\ ULt(end, start)

\* offset = AES_BLOCK_SIZE * -start
CtrOffset(iv) == AES_BLOCK_SIZE * (0 - be32_to_cpu(IvWord(iv, 3)))

\* an IV for the second submission that is the caller's IV as it came
CtrWrapIv_Unchanged(iv) == iv

\* iv[3] = cpu_to_be32(0xffffffff); crypto_inc(iv, AES_BLOCK_SIZE)
CtrWrapIv(iv) == crypto_inc(SubSeq(iv, 1, 12) \o cpu_to_be32(-1))

\* the SA record written to the ring slot when the request's fields are not set
SlotSaRecord_Plain(sa, aead, flags, aad, authsize) == sa

\* the SA record written to the ring slot: a copy of ctx->sa with the direction,
\* opcode and HMAC fields of this request
SlotSaRecord(sa, aead, flags, aad, authsize) ==
    [sa EXCEPT
       !.direction = IF IS_DECRYPT(flags) THEN 1 ELSE @,
       !.opCode = IF aead THEN 1 ELSE @,
       !.hashCryptOffset = IF IS_HMAC(flags) THEN aad \div 4 ELSE @,
       !.digestLength = IF IS_HMAC(flags) THEN authsize \div 4 ELSE @]

\* the IV written to the SA state slot before the first submission; old is the
\* content the slot had
SlotStateIv(old, flags, reqiv, iv, nonce) ==
    IF IS_CBC(flags) \/ (IS_CTR(flags) /\ ~IS_RFC3686(flags)) THEN ReadIv(reqiv)
    ELSE IF IS_RFC3686(flags)
    THEN nonce \o IvWord(iv, 0) \o IvWord(iv, 1) \o cpu_to_be32(1)
    ELSE old

\* what mtk_send_req hands back: its return value, the device, the request
\* context, *commands and *results; status is "ok" unless the code ran into a NULL
\* dereference or wrote through an error pointer
SendResult(ret, status, mtk, rctx, commands, results) ==
    [ret |-> ret, status |-> status, mtk |-> mtk, rctx |-> rctx, commands |-> commands,
     results |-> results]

\* lines 501-520 of mtk_send_req: after the first half r1 of a split request went
\* to the ring, the jump to offset, the new SA state slot with the wrapped IV iv2
\* and the second mtk_scatter_combine; same tells src_ctr == dst_ctr
SendTail(mtk, base, rctx, r1, wptr, src, dst, same, offset, datalen, iv2) ==
    LET wptr2 == mtk_ring_curr_wptr_index(r1.ring)
        mtk2 == [mtk EXCEPT !.ring = r1.ring, !.saState[wptr2] = iv2]
    IN  IF r1.status # "ok"
        THEN SendResult("OK", r1.status, [mtk EXCEPT !.ring = r1.ring], rctx,
                        r1.commands, r1.results)
        ELSE Only({
               IF src2 = "null_deref" \/ dst2 = "null_deref"
               THEN SendResult("OK", "null_deref", [mtk EXCEPT !.ring = r1.ring], rctx,
                               r1.commands, r1.results)
               ELSE Only({ SendResult("OK", r2.status, [mtk2 EXCEPT !.ring = r2.ring],
                                      [rctx EXCEPT !.ctr_src = src2, !.ctr_dst = dst2],
                                      r1.commands + r2.commands, r1.results + r2.results) :
                             r2 \in { mtk_scatter_combine(r1.ring, wptr, wptr2, src2, dst2,
                                                          datalen - offset, TRUE, base) } }) :
               src2 \in { scatterwalk_ffwd(src, offset) },
               dst2 \in { IF same THEN scatterwalk_ffwd(src, offset)
                          ELSE scatterwalk_ffwd(dst, offset) } })

\* lines 453-490 of mtk_send_req: the write pointer read under desc_lock, and the
\* SA record and SA state slots of that index filled for the request
SendHead(mtk, c, aead, reqiv, rctx) ==
    LET flags == rctx.flags
        wptr == mtk_ring_curr_wptr_index(mtk.ring)
    IN  [wptr |-> wptr,
         mtk |-> [mtk EXCEPT
                    !.saRecord[wptr] = SlotSaRecord(c.sa, aead, flags, rctx.assoclen,
                                                    rctx.authsize),
                    !.saState[wptr] = SlotStateIv(@, flags, reqiv, ReadIv(reqiv),
                                                  c.sa.saNonce)]]

\* lines 418-527 of mtk_send_req: the buffers src and dst are settled (rctx holds
\* the bounce buffers); the overflow test, the SA record and SA state slots under
\* desc_lock, and the one or two mtk_scatter_combine calls
SendIssue(mtk, base, c, aead, src, dst, same, reqiv, rctx, totlen_src) ==
    LET flags == rctx.flags
        aad == rctx.assoclen
        datalen == aad + rctx.textsize
        iv == ReadIv(reqiv)
        offset == CtrOffset(iv)
        h == SendHead(mtk, c, aead, reqiv, rctx)
        wptr == h.wptr
        mtk1 == h.mtk
    IN  IF CtrOverflow(flags, iv, totlen_src)
        THEN Only({ SendTail(m, base, rctx, r1, wptr, src, dst, same, offset, datalen,
                             CtrWrapIv(iv)) :
                      m \in {mtk1},
                      r1 \in { mtk_scatter_combine(mtk.ring, wptr, wptr, src, dst, offset,
                                                   FALSE, base) } })
        ELSE Only({ SendResult("OK", r.status, [mtk1 EXCEPT !.ring = r.ring], rctx,
                               r.commands, r.results) :
                      r \in { mtk_scatter_combine(mtk.ring, wptr, wptr, src, dst, datalen,
                                                  TRUE, base) } })

\* mtk_send_req(base, ctx, reqsrc, reqdst, reqiv, rctx, &commands, &results) on
\* the device mtk (ring, saRecord and saState slots).  c is the transform context,
\* aead is ctx->aead, inplace tells reqsrc == reqdst, baddr is where bounce buffers
\* of this request are allocated, nomem names the mtk_make_sg_cpy call that fails
\* ("src", "dst" or "none").
mtk_send_req(mtk, base, c, aead, reqsrc, reqdst, inplace, reqiv, rctx0, baddr, nomem) ==
    LET flags == rctx0.flags
        authsize == rctx0.authsize
        datalen == rctx0.assoclen + rctx0.textsize
        totlen_src == IF aead /\ ~IS_ENCRYPT(flags) THEN datalen + authsize ELSE datalen
        totlen_dst == IF aead /\ IS_ENCRYPT(flags) THEN datalen + authsize ELSE datalen
        blksize == BlkSize(flags)
        snents == sg_nents_for_len(reqsrc, totlen_src)
        dnents == sg_nents_for_len(reqdst, totlen_dst)
        mx == IF snents > dnents THEN snents ELSE dnents
        src_nents == IF inplace THEN mx ELSE snents
        dst_nents == IF inplace THEN mx ELSE dnents
        short == IF inplace
                 THEN (totlen_src # 0 \/ totlen_dst # 0) /\ src_nents <= 0
                 ELSE \/ totlen_src # 0 /\ src_nents <= 0
                      \/ totlen_dst # 0 /\ dst_nents <= 0
        src_align == ~aead /\ mtk_is_sg_aligned(reqsrc, totlen_src, blksize)
        dst_align == ~aead /\ mtk_is_sg_aligned(reqdst, totlen_dst, blksize)
        sg_src == IF src_align THEN << >> ELSE mtk_make_sg_cpy(baddr, rctx0)
        sg_dst == IF dst_align THEN << >> ELSE mtk_make_sg_cpy(baddr + 512, rctx0)
        rctx1 == [rctx0 EXCEPT !.sg_src = << >>, !.sg_dst = << >>,
                               !.src_nents = src_nents, !.dst_nents = dst_nents]
        fail(e, rc) == SendResult(e, "ok", mtk, rc, 0, 0)
    IN  IF ~IS_CTR(flags) /\ ~IS_ALIGNED(rctx0.textsize, blksize) THEN fail("EINVAL", rctx0)
        ELSE IF short THEN fail("EINVAL", rctx1)
        ELSE IF ~src_align /\ nomem = "src" THEN fail("ENOMEM", rctx1)
        ELSE IF ~dst_align /\ nomem = "dst"
        THEN fail("ENOMEM", [rctx1 EXCEPT !.sg_src = sg_src])
        ELSE Only({ SendIssue(mtk, base, c, aead, src, dst,
                              inplace /\ src_align /\ dst_align, reqiv, rctx, totlen_src) :
                      src \in { IF src_align THEN reqsrc ELSE sg_src },
                      dst \in { IF dst_align THEN reqdst ELSE sg_dst },
                      rctx \in { [rctx1 EXCEPT !.sg_src = sg_src, !.sg_dst = sg_dst] } })

-----------------------------------------------------------------------------
(* Entry points: mtk_skcipher_encrypt/decrypt, mtk_aead_encrypt/decrypt *)

\* requests shorter than this go to the software fallback of a skcipher transform
NUM_AES_BYPASS == 256

\* .maxauthsize of an AEAD template, the tag length of a transform that nobody
\* gave another one
MaxAuthSize(flags) ==
    CASE HashOf(flags) = "MD5" -> 16
      [] HashOf(flags) = "SHA1" -> 20
      [] HashOf(flags) = "SHA224" -> 28
      [] HashOf(flags) = "SHA256" -> 32
      [] OTHER -> 0

\* the request context as mtk_skcipher_encrypt/decrypt and mtk_skcipher_crypt
\* fill it; dir is "ENCRYPT" or "DECRYPT"
SkcipherRctx(tmpl, dir, cryptlen) ==
    [RctxZero EXCEPT !.flags = tmpl.flags \cup {dir}, !.textsize = cryptlen,
                     !.authsize = 0, !.assoclen = 0, !.ivsize = tmpl.ivsize]

\* the request context as mtk_aead_encrypt/decrypt and mtk_aead_crypt fill it
AeadRctx(tmpl, dir, cryptlen, assoclen, authsize) ==
    [RctxZero EXCEPT !.flags = tmpl.flags \cup {dir},
                     !.textsize = IF dir = "DECRYPT" THEN cryptlen - authsize
                                  ELSE cryptlen,
                     !.assoclen = assoclen, !.authsize = authsize,
                     !.ivsize = tmpl.ivsize]

\* every transform with a key set: the smallest key its template takes, or an
\* authenc blob with a 16-byte cipher key and a 20-byte authentication key
KeyedCtx ==
    [t \in Tfms |->
        IF Tmpl[t].type = "aead"
        THEN mtk_aead_setkey(CtxInit(FALSE), Tmpl[t], 1, 2, 16, 20, "ok").ctx
        ELSE mtk_skcipher_setkey(CtxInit(FALSE), Tmpl[t], 1, Tmpl[t].min_keysize,
                                 FALSE, FALSE).ctx]

-----------------------------------------------------------------------------
(* mtk_req_result *)

\* mtk_ring_next_rptr(mtk, ring, &rptr): the index the read pointer stands at,
\* or a negative number for the error pointer of an empty ring
mtk_ring_next_rptr(r) == IF RingEmpty(r) THEN 0 - 2 ELSE r.read

\* the poll of lines 566-576 on result descriptor rd: TRUE when both ready bits
\* are seen set within the 1000 tries
PollReady(rd) == rd.ready1 = 1 /\ rd.ready2 = 1

\* a loop that runs on to the descriptor that completes the request
ResultStop_AtFinish(last_entry, should_complete) == should_complete

\* if (last_entry) break;
ResultStop(last_entry, should_complete) == last_entry

\* the while (ndesc < nreq) loop of mtk_req_result on the loop state st: the
\* ring, the locals, and what the loop saw (polled: descriptors whose ready bits
\* were both set; unready: descriptors taken after 1000 tries without them; errs:
\* descriptors with an error status, each as the slot it was taken from; owners:
\* the request recorded for each descriptor)
RECURSIVE ResultLoop(_)
ResultLoop(st) ==
    IF st.ndesc >= st.nreq THEN st
    ELSE
    LET ring == st.ring
        ri == mtk_ring_next_rptr(ring.rdr)
        rd == ring.rdesc[ri]
        ring1 == [ring EXCEPT !.rdr = NextRptr(@, ring.size)]
        ci == mtk_ring_next_rptr(ring1.cdr)
        buf == ring1.dma_buf[ci]
        ring2 == [ring1 EXCEPT !.cdr = NextRptr(@, ring.size),
                               !.dma_buf[ci].flags = {}]
        s1 == [st EXCEPT
                 !.ring = ring1,
                 !.ret = IF rd.errStatus # 0 THEN "EINVAL" ELSE @,
                 !.unready = IF PollReady(rd) THEN @ ELSE @ \cup {ri},
                 !.errs = IF rd.errStatus # 0 THEN @ \cup {ri} ELSE @]
        s2 == [s1 EXCEPT
                 !.ring = ring2, !.rptr = ci,
                 !.should_complete = @ \/ "FINISH" \in buf.flags,
                 !.last_entry = @ \/ "LAST" \in buf.flags,
                 !.owners = Append(@, [slot |-> ci, req |-> buf.req]),
                 !.ndesc = @ + 1]
    IN  IF ri < 0 THEN [st EXCEPT !.ret = "ENOENT"]
        ELSE IF ci < 0 THEN [s1 EXCEPT !.ret = "ENOENT"]
        ELSE Only({ IF ResultStop(s.last_entry, s.should_complete) THEN s
                    ELSE ResultLoop(s) : s \in {s2} })

\* the caller's IV buffer left as the caller filled it
CopyIv_Keep(reqiv, stateIv, ivsize) == reqiv

\* memcpy(reqiv, saState->stateIv, rctx->ivsize)
CopyIv(reqiv, stateIv, ivsize) ==
    [i \in 1..Len(reqiv) |-> IF i <= ivsize THEN stateIv[i] ELSE reqiv[i]]

\* lines 614-664 of mtk_req_result on the state st the loop left: the bounce
\* buffers, the IV copy and the backlog notification at a LAST descriptor
ResultEnd(mtk, rctx, inplace, reqiv, st) ==
    LET direct == rctx.sg_src = << >> /\ rctx.sg_dst = << >> /\ inplace
        freed == [rctx EXCEPT !.sg_src = << >>, !.sg_dst = << >>]
        update == direct \/ st.should_complete
        newiv == ~IS_RFC3686(rctx.flags) /\ (IS_CBC(rctx.flags) \/ IS_CTR(rctx.flags))
        out == [mtk |-> [mtk EXCEPT !.ring = st.ring], rctx |-> rctx, reqiv |-> reqiv,
                should_complete |-> st.should_complete, ret |-> st.ret,
                ndesc |-> st.ndesc, notify |-> FALSE, copyback |-> FALSE,
                ivcopy |-> FALSE,
                last_entry |-> st.last_entry, unready |-> st.unready,
                errs |-> st.errs, owners |-> st.owners]
    IN  IF ~st.last_entry THEN out
        ELSE [out EXCEPT
                !.rctx = IF direct THEN rctx ELSE freed,
                !.copyback = ~direct /\ rctx.sg_dst # << >>,
                !.ivcopy = update /\ newiv,
                !.reqiv = IF update /\ newiv
                          THEN CopyIv(reqiv, mtk.saState[st.ring.dma_buf[st.rptr].saPointer],
                                      rctx.ivsize)
                          ELSE reqiv,
                !.notify = update /\ IS_BUSY(rctx.flags)]

\* mtk_req_result(mtk, rctx, reqsrc, reqdst, reqiv, &should_complete, &ret);
\* inplace tells reqsrc == reqdst.
\* notify tells whether req->complete(req, -EINPROGRESS) was called, copyback
\* whether the bounce destination was copied to reqdst, ivcopy whether reqiv was
\* written.
mtk_req_result(mtk, rctx, inplace, reqiv) ==
    Only({ ResultEnd(mtk, rctx, inplace, reqiv, st) :
             st \in { ResultLoop(s) :
                        s \in {[ring |-> mtk.ring, ndesc |-> 0, nreq |-> mtk.PE_RD_COUNT,
                                ret |-> "OK", should_complete |-> FALSE,
                                last_entry |-> FALSE, rptr |-> 0, unready |-> {},
                                errs |-> {}, owners |-> << >>]} } })

-----------------------------------------------------------------------------
(* DMA mappings: dma_map_sg / dma_unmap_sg calls, each as the list and the   *)
(* direction it is made with                                                 *)

DmaMap(sg, dir) == [sg |-> sg, dir |-> dir]

\* lines 419-421 and 512-514: the dma_map_sg calls of an mtk_send_req call that
\* issued descriptors and left the request context rctx: on dst and, if
\* src != dst, on src; for a split request once more on the lists from offset on
SendDmaMaps(reqsrc, reqdst, inplace, rctx) ==
    LET src == IF rctx.sg_src # << >> THEN rctx.sg_src ELSE reqsrc
        dst == IF rctx.sg_dst # << >> THEN rctx.sg_dst ELSE reqdst
        same == inplace /\ rctx.sg_src = << >> /\ rctx.sg_dst = << >>
        pair(s, d) == << DmaMap(d, "BIDIRECTIONAL") >>
                         \o (IF same THEN << >> ELSE << DmaMap(s, "TO_DEVICE") >>)
    IN  pair(src, dst)
          \o (IF rctx.ctr_src = << >> THEN << >>
              ELSE pair(rctx.ctr_src, IF same THEN rctx.ctr_src ELSE rctx.ctr_dst))

\* lines 610-643: the dma_unmap_sg calls mtk_req_result makes at a LAST
\* descriptor, rctx being the request context as the call found it
ResultDmaUnmaps(reqsrc, reqdst, inplace, rctx) ==
    IF rctx.sg_src = << >> /\ rctx.sg_dst = << >> /\ inplace
    THEN << DmaMap(reqdst, "BIDIRECTIONAL") >>
    ELSE << DmaMap(IF rctx.sg_src # << >> THEN rctx.sg_src ELSE reqsrc, "TO_DEVICE"),
            DmaMap(IF rctx.sg_dst # << >> THEN rctx.sg_dst ELSE reqdst, "FROM_DEVICE") >>

-----------------------------------------------------------------------------
(* mtk_skcipher_crypt and mtk_aead_crypt *)

\* mtk->ring[0].requests > MTK_RING_BUSY, with a test that also refuses at the
\* threshold itself
RingIsBusy_AtThreshold(requests) == requests >= MTK_RING_BUSY

\* mtk->ring[0].requests > MTK_RING_BUSY
RingIsBusy(requests) == requests > MTK_RING_BUSY

\* the ring accounting with a command count that announces all outstanding
\* descriptors again
RingAccount_AnnounceAll(mtk, commands, pending) ==
    [mtk EXCEPT
       !.requests = @ + commands,
       !.PE_RING_THRESH = IF mtk.busy THEN @ ELSE pending - 1,
       !.busy = TRUE,
       !.PE_CD_COUNT = @ + mtk.requests + commands]

\* lines 833-853 (1076-1096): the ring accounting of commands descriptors under
\* ring.lock and the write of the command count; pending is the pending count
\* programmed when the ring was idle
RingAccount(mtk, commands, pending) ==
    [mtk EXCEPT
       !.requests = @ + commands,
       !.PE_RING_THRESH = IF mtk.busy THEN @ ELSE pending - 1,
       !.busy = TRUE,
       !.PE_CD_COUNT = @ + commands]

\* what a crypt entry point hands back: its return value, the device, the
\* request context, the descriptors it issued and whether it called
\* base->complete() itself
CryptResult(ret, mtk, rctx, commands, called) ==
    [ret |-> ret, mtk |-> mtk, rctx |-> rctx, commands |-> commands, called |-> called]

\* lines 830-855 of mtk_skcipher_crypt and 1073-1098 of mtk_aead_crypt: what the
\* entry point does with the outcome r of mtk_send_req when the ring held
\* requests descriptors before; cap is the limit of the pending count
\* (SkPendingMax for skcipher, none for AEAD, given as 0)
CryptAccount(r, requests0, cap) ==
    LET requests == requests0 + r.commands
        pending == IF cap # 0 /\ requests > cap THEN cap ELSE requests
        busy == requests > MTK_RING_BUSY
        rc == IF busy THEN [r.rctx EXCEPT !.flags = @ \cup {"BUSY"}] ELSE r.rctx
    IN  IF r.status # "ok"
        THEN CryptResult("OOPS", [r.mtk EXCEPT !.oops = r.status], r.rctx, r.commands, FALSE)
        ELSE IF r.ret # "OK" THEN CryptResult(r.ret, r.mtk, r.rctx, 0, TRUE)
        ELSE IF r.commands = 0 THEN CryptResult("OK", r.mtk, r.rctx, 0, FALSE)
        ELSE CryptResult(IF busy THEN "EBUSY" ELSE "EINPROGRESS",
                         RingAccount(r.mtk, r.commands, pending), rc, r.commands, FALSE)

\* an entry point that makes the busy test only after mtk_send_req has written
\* the descriptors
CryptIssue_SendFirst(mtk, base, c, aead, req, rctx, baddr, nomem, cap) ==
    Only({ IF RingIsBusy(mtk.requests) /\ r.ret = "OK"
           THEN CryptResult("EAGAIN", r.mtk, r.rctx, 0, FALSE)
           ELSE CryptAccount(r, mtk.requests, cap) :
             r \in { mtk_send_req(mtk, base, c, aead, req.src, req.dst, req.inplace,
                                  req.iv, x, baddr, nomem) : x \in {rctx} } })

\* lines 819-855 of mtk_skcipher_crypt and 1062-1098 of mtk_aead_crypt: the busy
\* test, mtk_send_req and the accounting
CryptIssue(mtk, base, c, aead, req, rctx, baddr, nomem, cap) ==
    IF RingIsBusy(mtk.requests) THEN CryptResult("EAGAIN", mtk, rctx, 0, FALSE)
    ELSE Only({ CryptAccount(r, mtk.requests, cap) :
                  r \in { mtk_send_req(mtk, base, c, aead, req.src, req.dst, req.inplace,
                                       req.iv, x, baddr, nomem) : x \in {rctx} } })

\* mtk_skcipher_crypt with the busy test ahead of the fallback test
SkcipherCrypt_BusyFirst(mtk, base, c, tmpl, dir, req, baddr, nomem) ==
    LET rctx == SkcipherRctx(tmpl, dir, req.cryptlen)
    IN  IF req.cryptlen = 0 THEN CryptResult("OK", mtk, RctxZero, 0, FALSE)
        ELSE IF RingIsBusy(mtk.requests) THEN CryptResult("EAGAIN", mtk, rctx, 0, FALSE)
        ELSE IF req.cryptlen < NUM_AES_BYPASS /\ c.fallback
        THEN CryptResult("OK", mtk, rctx, 0, FALSE)
        ELSE CryptIssue(mtk, base, c, FALSE, req, rctx, baddr, nomem, SkPendingMax)

\* mtk_skcipher_crypt(req) after mtk_skcipher_encrypt/decrypt set the flags
mtk_skcipher_crypt(mtk, base, c, tmpl, dir, req, baddr, nomem) ==
    LET rctx == SkcipherRctx(tmpl, dir, req.cryptlen)
    IN  IF req.cryptlen = 0 THEN CryptResult("OK", mtk, RctxZero, 0, FALSE)
        ELSE IF req.cryptlen < NUM_AES_BYPASS /\ c.fallback
        THEN CryptResult("OK", mtk, rctx, 0, FALSE)
        ELSE CryptIssue(mtk, base, c, FALSE, req, rctx, baddr, nomem, SkPendingMax)

\* mtk_aead_crypt(req) after mtk_aead_encrypt/decrypt set the flags
mtk_aead_crypt(mtk, base, c, tmpl, dir, req, authsize, baddr, nomem) ==
    LET rctx == AeadRctx(tmpl, dir, req.cryptlen, req.assoclen, authsize)
    IN  IF rctx.textsize = 0 THEN CryptResult("OK", mtk, rctx, 0, FALSE)
        ELSE CryptIssue(mtk, base, c, TRUE, req, rctx, baddr, nomem, 0)

-----------------------------------------------------------------------------
(* Specification SpecSend: one mtk_send_req call on an idle device *)

SendTfms ==
    {"cbc_aes", "ctr_aes", "rfc3686_aes", "authenc_hmac_sha1_cbc_aes",
     "authenc_hmac_sha256_ctr_aes"}

SendCryptLens == {16, 32, 48}

SendAssocLens == {0, 16}

\* the last word of the IV, as its four bytes
SendCounters ==
    { << 0, 0, 0, 0 >>, << 0, 0, 0, 1 >>, << 255, 255, 255, 253 >>,
      << 255, 255, 255, 254 >>, << 255, 255, 255, 255 >> }

\* the byte that fills the rest of the IV
SendIvFill == {17, 255}

SendLayouts == {"one", "two", "unaligned", "short"}

\* a buffer of need bytes at bus address base: one aligned segment, two aligned
\* segments, one segment off the cache line, or one segment that is 8 bytes short
SendList(layout, base, need) ==
    CASE layout = "one" -> << Seg(base, 0, need) >>
      [] layout = "two" -> << Seg(base, 0, 16), Seg(base + 256, 32, need - 16) >>
      [] layout = "unaligned" -> << Seg(base + 4, 4, need) >>
      [] OTHER -> << Seg(base, 0, need - 8) >>

\* the IV a caller hands in: ivsize bytes, for a sixteen-byte IV ending in counter
SendIv(ivsize, fill, counter) ==
    IF ivsize = AES_BLOCK_SIZE THEN [i \in 1..12 |-> fill] \o counter
    ELSE [i \in 1..ivsize |-> fill]

SendRingSize == 6

InitSend ==
    /\ ctx = KeyedCtx /\ reqs = << >>
    /\ \E w \in {0, SendRingSize - 2} : dev = DevNew(SendRingSize, w)
    /\ \E t \in SendTfms, dir \in {"ENCRYPT", "DECRYPT"}, cryptlen \in SendCryptLens,
          assoclen \in SendAssocLens, counter \in SendCounters, fill \in SendIvFill,
          ls \in SendLayouts, ld \in SendLayouts, inplace \in BOOLEAN,
          nomem \in {"none", "src", "dst"} :
         LET tmpl == Tmpl[t]
             aead == tmpl.type = "aead"
             authsize == MaxAuthSize(tmpl.flags)
             rctx == IF aead THEN AeadRctx(tmpl, dir, cryptlen, assoclen, authsize)
                     ELSE SkcipherRctx(tmpl, dir, cryptlen)
             datalen == rctx.assoclen + rctx.textsize
             need_src == IF aead /\ dir = "DECRYPT" THEN datalen + authsize ELSE datalen
             need_dst == IF aead /\ dir = "ENCRYPT" THEN datalen + authsize ELSE datalen
             need == IF need_src > need_dst THEN need_src ELSE need_dst
             src == SendList(ls, 4096, IF inplace THEN need ELSE need_src)
             dst == IF inplace THEN src ELSE SendList(ld, 8192, need_dst)
         IN  /\ aead \/ assoclen = 0
             /\ inplace => ls = ld
             /\ rctx.textsize > 0
             /\ (ls = "two" \/ ld = "two") => datalen > 16
             /\ nomem # "none" => (aead \/ ls = "unaligned" \/ ld = "unaligned")
             /\ fn = [op |-> "send_req", done |-> FALSE, tfm |-> t, aead |-> aead,
                      src |-> src, dst |-> dst, inplace |-> inplace,
                      iv |-> SendIv(tmpl.ivsize, fill, counter), rctx |-> rctx,
                      nomem |-> nomem, wptr |-> mtk_ring_curr_wptr_index(dev.ring),
                      ret |-> "OK", status |-> "ok", commands |-> 0, results |-> 0]

\* mtk_send_req(base, ctx, req->src, req->dst, req->iv, rctx, &commands, &results)
CallSendReq ==
    /\ fn.op = "send_req" /\ ~fn.done
    /\ \E r \in { mtk_send_req(dev, 1, ctx[fn.tfm], fn.aead, fn.src, fn.dst, fn.inplace,
                               fn.iv, fn.rctx, 16384, fn.nomem) } :
           /\ dev' = r.mtk
           /\ fn' = [fn EXCEPT !.done = TRUE, !.ret = r.ret, !.status = r.status,
                               !.rctx = r.rctx, !.commands = r.commands,
                               !.results = r.results]
    /\ UNCHANGED << ctx, reqs >>

\* mtk_skcipher_setkey / mtk_aead_setkey with another key on the transform of
\* the request, after mtk_send_req has issued its descriptors
SendRekey ==
    /\ fn.op = "send_req" /\ fn.done /\ ctx = KeyedCtx
    /\ LET t == fn.tfm
       IN  ctx' = [ctx EXCEPT ![t] =
                     IF fn.aead
                     THEN mtk_aead_setkey(@, Tmpl[t], 2, 1, 16, 20, "ok").ctx
                     ELSE mtk_skcipher_setkey(@, Tmpl[t], 2, Tmpl[t].min_keysize,
                                              FALSE, FALSE).ctx]
    /\ UNCHANGED << fn, dev, reqs >>

NextSend == CallSendReq \/ SendRekey

SpecSend == InitSend /\ [][NextSend]_vars

\* the ring slot of the k-th descriptor (k = 0, 1, ...) written by the call
SendSlot(k) == (fn.wptr + k) % dev.ring.size

\* the descriptors written by the call that end a sub-request (carry LAST)
SendLasts == { k \in 0..(fn.commands - 1) : "LAST" \in dev.ring.dma_buf[SendSlot(k)].flags }

\* the bytes covered by descriptors a..b of the call
RECURSIVE SendBytes(_, _)
SendBytes(a, b) ==
    IF a > b THEN 0 ELSE dev.ring.cdesc[SendSlot(a)].length + SendBytes(a + 1, b)

\* the call made two submissions: a first one that is not marked complete
SendIsSplit == \E k \in SendLasts : "FINISH" \notin dev.ring.dma_buf[SendSlot(k)].flags

\* blocks the counter of the IV can still count before it wraps: 2^32 - ctr0,
\* for a counter in the upper half of its range
SendToWrap == 0 - be32_to_cpu(IvWord(ReadIv(fn.iv), 3))

\* the request runs in counter mode without RFC3686 and counting blocks blocks from
\* ctr0 passes 0xFFFFFFFF
SendOverflows(blocks) ==
    /\ IS_CTR(fn.rctx.flags) /\ ~IS_RFC3686(fn.rctx.flags)
    /\ SendToWrap > 0 /\ blocks > SendToWrap

\* C3: whenever mtk_send_req splits a request whose IV counter is ctr0, the first
\* sub-request covers exactly 16 * (2^32 - ctr0) bytes, the second one exactly the
\* remaining bytes of the request, and the second one's IV has the counter word 0.
C3_SplitSizes ==
    (fn.op = "send_req" /\ fn.done /\ fn.ret = "OK" /\ SendIsSplit) =>
        LET k == CHOOSE k \in SendLasts : "FINISH" \notin dev.ring.dma_buf[SendSlot(k)].flags
            first == SendBytes(0, k)
            second == SendBytes(k + 1, fn.commands - 1)
            total == fn.rctx.assoclen + fn.rctx.textsize
            slot2 == dev.ring.cdesc[SendSlot(k + 1)].stateAddr
        IN  /\ fn.status = "ok"
            /\ Cardinality(SendLasts) = 2
            /\ first = 16 * SendToWrap
            /\ second = total - first
            /\ second > 0
            /\ IvWord(dev.saState[slot2], 3) = << 0, 0, 0, 0 >>

\* C4: mtk_send_req makes two submissions exactly when the mode is counter mode
\* without RFC3686 and ctr0 + blocks - 1 overflows 32 bits, blocks being the
\* blocks of the bytes the cipher consumes; otherwise it makes one submission,
\* marked complete.
C4_SplitIff ==
    (fn.op = "send_req" /\ fn.done /\ fn.ret = "OK") =>
        LET blocks == (fn.rctx.textsize + AES_BLOCK_SIZE - 1) \div AES_BLOCK_SIZE
        IN  /\ fn.status = "ok"
            /\ SendIsSplit <=> SendOverflows(blocks)
            /\ ~SendIsSplit =>
                 /\ Cardinality(SendLasts) = 1
                 /\ "FINISH" \in dev.ring.dma_buf[SendSlot(fn.commands - 1)].flags

\* C22: in a split the descriptors up to the first LAST name the SA state slot
\* at the write pointer of the call, which holds the caller's IV, and that LAST
\* comes without FINISH; the descriptors after it name the slot of the first of
\* them, a different one, which holds the caller's IV with the counter word 0
\* and the 96 bits above it counted up by one, and the last of them carries LAST
\* and FINISH; the side-table entries of all of them hold the request.
C22_SplitHalves ==
    (fn.op = "send_req" /\ fn.done /\ fn.ret = "OK" /\ fn.status = "ok" /\ SendIsSplit) =>
        LET k == CHOOSE k \in SendLasts : "FINISH" \notin dev.ring.dma_buf[SendSlot(k)].flags
            slot1 == fn.wptr
            slot2 == SendSlot(k + 1)
            iv == ReadIv(fn.iv)
        IN  /\ SendLasts = {k, fn.commands - 1} /\ k < fn.commands - 1
            /\ dev.ring.dma_buf[SendSlot(fn.commands - 1)].flags = {"ASYNC", "LAST", "FINISH"}
            /\ dev.ring.dma_buf[SendSlot(k)].flags = {"ASYNC", "LAST"}
            /\ slot2 # slot1
            /\ dev.saState[slot1] = iv
            /\ dev.saState[slot2] = crypto_inc(SubSeq(iv, 1, 12)) \o << 0, 0, 0, 0 >>
            /\ \A j \in 0..(fn.commands - 1) :
                  /\ dev.ring.dma_buf[SendSlot(j)].req = 1
                  /\ dev.ring.cdesc[SendSlot(j)].stateAddr = IF j <= k THEN slot1 ELSE slot2
                  /\ dev.ring.dma_buf[SendSlot(j)].saPointer = IF j <= k THEN slot1 ELSE slot2

\* a split whose first half takes two descriptors
C22_Witness ==
    /\ fn.op = "send_req" /\ fn.done /\ fn.ret = "OK" /\ fn.status = "ok" /\ SendIsSplit
    /\ "LAST" \notin dev.ring.dma_buf[SendSlot(0)].flags

\* the fields of the SA record mtk_send_req sets for the request
SaRequestFields == {"direction", "opCode", "hashCryptOffset", "digestLength"}

\* C26: the SA record in the ring slot the descriptors of a request name is the
\* transform's record as it was at submission, with the direction and opcode of
\* the request, also after a setkey on the transform; the transform's own record
\* never carries a direction or an opcode.
C26_SaRecordPrivate ==
    (fn.op = "send_req" /\ fn.done /\ fn.ret = "OK") =>
        LET slot == dev.saRecord[fn.wptr]
            sa0 == KeyedCtx[fn.tfm].sa
        IN  /\ \A f \in DOMAIN sa0 \ SaRequestFields : slot[f] = sa0[f]
            /\ slot.direction = IF IS_DECRYPT(fn.rctx.flags) THEN 1 ELSE 0
            /\ slot.opCode = IF fn.aead THEN 1 ELSE 0
            /\ \A k \in 0..(fn.commands - 1) : dev.ring.cdesc[SendSlot(k)].saAddr = fn.wptr
            /\ ctx[fn.tfm].sa.direction = 0 /\ ctx[fn.tfm].sa.opCode = 0

\* a decryption whose transform was given another key after submission
C26_Witness ==
    /\ fn.op = "send_req" /\ fn.done /\ fn.ret = "OK" /\ fn.commands > 0
    /\ IS_DECRYPT(fn.rctx.flags)
    /\ ctx[fn.tfm].sa.saKey # KeyedCtx[fn.tfm].sa.saKey
    /\ dev.saRecord[fn.wptr].saKey = KeyedCtx[fn.tfm].sa.saKey

\* C35: every descriptor pair of a request mtk_send_req accepted covers at least
\* one byte, in both halves of a split request too.
C35_NoEmptyPair ==
    (fn.op = "send_req" /\ fn.done /\ fn.ret = "OK") =>
        \A k \in 0..(fn.commands - 1) : ULe(1, dev.ring.cdesc[SendSlot(k)].length)

\* the bytes the request needs in its source list and in its destination list
SendNeedSrc ==
    fn.rctx.assoclen + fn.rctx.textsize
        + (IF fn.aead /\ ~IS_ENCRYPT(fn.rctx.flags) THEN fn.rctx.authsize ELSE 0)

SendNeedDst ==
    fn.rctx.assoclen + fn.rctx.textsize
        + (IF fn.aead /\ IS_ENCRYPT(fn.rctx.flags) THEN fn.rctx.authsize ELSE 0)

\* the source or the destination list holds fewer bytes than the request needs
SendTooSmall ==
    \/ SgBytes(fn.src, Len(fn.src)) < SendNeedSrc
    \/ SgBytes(fn.dst, Len(fn.dst)) < SendNeedDst

\* C11: when the source or the destination list holds fewer bytes than the
\* request needs, mtk_send_req returns an error, allocates no bounce buffer and
\* issues no descriptor.
C11_TooSmallRefused ==
    (fn.op = "send_req" /\ fn.done /\ SendTooSmall) =>
        /\ fn.ret # "OK"
        /\ fn.commands = 0 /\ RingCount(dev.ring) = 0
        /\ fn.rctx.sg_src = << >> /\ fn.rctx.sg_dst = << >>

\* C12: when a bounce-buffer allocation fails, mtk_send_req returns the error
\* with no descriptor issued and with no bounce buffer of the request left
\* allocated.
C12_NoMemTornDown ==
    (fn.op = "send_req" /\ fn.done /\ fn.ret = "ENOMEM") =>
        /\ fn.nomem # "none"
        /\ fn.commands = 0 /\ RingCount(dev.ring) = 0
        /\ fn.rctx.sg_src = << >> /\ fn.rctx.sg_dst = << >>

-----------------------------------------------------------------------------
(* Specification SpecRing: one mtk_send_req call on a device whose ring still *)
(* holds descriptors of earlier requests                                      *)

\* the device with used descriptors outstanding in a ring of n slots whose write
\* pointers stand at slot w
DevUsed(n, w, used) ==
    [DevNew(n, w) EXCEPT !.ring.cdr.read = (w + n - used) % n,
                         !.ring.rdr.read = (w + n - used) % n,
                         !.requests = used, !.busy = used > 0]

InitRing ==
    /\ ctx = KeyedCtx /\ reqs = << >>
    /\ \E w \in 0..(SendRingSize - 1), used \in 0..(SendRingSize - 1) :
          dev = DevUsed(SendRingSize, w, used)
    /\ \E t \in {"cbc_aes", "ctr_aes"}, dir \in {"ENCRYPT", "DECRYPT"},
          cryptlen \in {32, 48}, counter \in SendCounters, ls \in {"one", "two"},
          ld \in {"one", "two"}, inplace \in BOOLEAN :
         LET src == SendList(ls, 4096, cryptlen)
             dst == IF inplace THEN src ELSE SendList(ld, 8192, cryptlen)
         IN  /\ inplace => ls = ld
             /\ fn = [op |-> "send_req", done |-> FALSE, tfm |-> t, aead |-> FALSE,
                      src |-> src, dst |-> dst, inplace |-> inplace,
                      iv |-> SendIv(Tmpl[t].ivsize, 17, counter),
                      rctx |-> SkcipherRctx(Tmpl[t], dir, cryptlen),
                      nomem |-> "none", wptr |-> mtk_ring_curr_wptr_index(dev.ring),
                      ret |-> "OK", status |-> "ok", commands |-> 0, results |-> 0]

NextRing == CallSendReq

SpecRing == InitRing /\ [][NextRing]_vars

\* the call ended before descriptors for all bytes of the request were in the
\* ring: the ring could not supply a descriptor
SendRanOut == SendBytes(0, fn.commands - 1) # fn.rctx.assoclen + fn.rctx.textsize

\* C13: when the ring cannot supply a descriptor during mtk_scatter_combine,
\* nothing is written through the failed slot and mtk_send_req returns an error.
C13_RingFailureSurfaced ==
    (fn.op = "send_req" /\ fn.done /\ SendRanOut) =>
        /\ fn.status # "err_ptr_write"
        /\ fn.ret # "OK"

-----------------------------------------------------------------------------
(* Specification Spec: requests are submitted one entry-point call at a time, *)
(* the engine works the announced descriptors off, and the result handler    *)
(* retires them.                                                             *)

\* requests handed to the driver in one behaviour
MaxReqs == 2

\* a caller's request: buffers, IV and lengths
Req(src, dst, inplace, iv, cryptlen, assoclen) ==
    [src |-> src, dst |-> dst, inplace |-> inplace, iv |-> iv, cryptlen |-> cryptlen,
     assoclen |-> assoclen]

\* the requests callers make: cbc(aes) over one aligned segment in place; ctr(aes)
\* in place with a counter that wraps after the first block; the same through
\* unaligned buffers; cbc(aes) from two segments into one; authenc with 16 bytes
\* of associated data; ecb(aes) in place; rfc3686(ctr(aes)) with its 8-byte IV.
\* fault numbers the descriptors of the request (0, 1, ...)
\* for which the engine reports an error status.
ReqMenu ==
    << [tfm |-> "cbc_aes", dir |-> "ENCRYPT", fault |-> {},
        req |-> Req(<< Seg(4096, 0, 16) >>, << Seg(4096, 0, 16) >>, TRUE,
                    SendIv(16, 17, << 0, 0, 0, 1 >>), 16, 0)],
       [tfm |-> "ctr_aes", dir |-> "ENCRYPT", fault |-> {0},
        req |-> Req(<< Seg(4096, 0, 32) >>, << Seg(4096, 0, 32) >>, TRUE,
                    SendIv(16, 255, << 255, 255, 255, 255 >>), 32, 0)],
       [tfm |-> "ctr_aes", dir |-> "DECRYPT", fault |-> {},
        req |-> Req(<< Seg(4100, 4, 32) >>, << Seg(8196, 4, 32) >>, FALSE,
                    SendIv(16, 17, << 255, 255, 255, 255 >>), 32, 0)],
       [tfm |-> "cbc_aes", dir |-> "DECRYPT", fault |-> {1},
        req |-> Req(<< Seg(4096, 0, 16), Seg(4352, 32, 16) >>, << Seg(8192, 0, 32) >>,
                    FALSE, SendIv(16, 17, << 0, 0, 0, 2 >>), 32, 0)],
       [tfm |-> "authenc_hmac_sha1_cbc_aes", dir |-> "ENCRYPT", fault |-> {0},
        req |-> Req(<< Seg(4096, 0, 32) >>, << Seg(8192, 0, 52) >>, FALSE,
                    SendIv(16, 17, << 0, 0, 0, 3 >>), 16, 16)],
       [tfm |-> "ecb_aes", dir |-> "ENCRYPT", fault |-> {},
        req |-> Req(<< Seg(4096, 0, 16) >>, << Seg(4096, 0, 16) >>, TRUE,
                    SendIv(0, 17, << 0, 0, 0, 0 >>), 16, 0)],
       [tfm |-> "rfc3686_aes", dir |-> "DECRYPT", fault |-> {},
        req |-> Req(<< Seg(4096, 0, 16) >>, << Seg(8192, 0, 16) >>, FALSE,
                    SendIv(CTR_RFC3686_IV_SIZE, 17, << 0, 0, 0, 0 >>), 16, 0)] >>

\* the transforms the requests of the menu run on
ReqTfms == { ReqMenu[k].tfm : k \in DOMAIN ReqMenu }

SkcipherReqs == { k \in DOMAIN ReqMenu : Tmpl[ReqMenu[k].tfm].type = "skcipher" }

AeadReqs == { k \in DOMAIN ReqMenu : Tmpl[ReqMenu[k].tfm].type = "aead" }

\* where the bounce buffers of request id are allocated
BounceAddr(id) == 16384 + 1024 * id

\* addr lies in a bounce buffer
IsBounce(addr) == addr >= BounceAddr(0)

\* a request the driver accepted, as the model follows it: the menu entry, the
\* ring slot its first descriptor went to, the issued descriptors that were
\* outstanding when it came (seen), whether a submission had been refused before
\* (after), the request context, the caller's IV buffer, the entry point's return
\* value, and what happened to it since: descriptors issued and retired,
\* completions delivered and the last outcome, -EINPROGRESS notifications,
\* descriptors that carried an error status and descriptors taken without both
\* ready bits; the IV writes and notifications at a LAST descriptor without
\* FINISH (earlyiv, earlynotify); the retired count at each copy-back from the
\* bounce destination (copied); and where the engine's output of each of its
\* descriptors 0, 1, ... is: in the caller's destination (out), in the bounce
\* destination (inb), or written to a bounce buffer already freed (lost); and
\* what the SA state slot of the side-table entry of its last retired descriptor
\* held when it was reported complete (slotiv); the bounce buffers mtk_send_req
\* allocated for it (nbounce) and the bounce buffers freed since (nfree); the DMA
\* mappings made for it (mapped) and the unmappings made since (unmapped)
ReqNew(k, r) ==
    [shape |-> k, first |-> mtk_ring_curr_wptr_index(dev.ring),
     seen |-> RingCount(dev.ring), after |-> fn.last.ret = "EAGAIN",
     rctx |-> r.rctx, iv |-> ReqMenu[k].req.iv, ret |-> r.ret,
     ndesc |-> r.commands, retired |-> 0, ncomplete |-> 0, outcome |-> "NONE",
     nnotify |-> 0, errs |-> 0, unready |-> 0,
     earlyiv |-> 0, earlynotify |-> 0, copied |-> << >>,
     out |-> {}, inb |-> {}, lost |-> {}, slotiv |-> << >>,
     nbounce |-> (IF r.rctx.sg_src # << >> THEN 1 ELSE 0)
                   + (IF r.rctx.sg_dst # << >> THEN 1 ELSE 0),
     nfree |-> 0,
     mapped |-> SendDmaMaps(ReqMenu[k].req.src, ReqMenu[k].req.dst,
                            ReqMenu[k].req.inplace, r.rctx),
     unmapped |-> << >>]

\* an entry-point call that did not accept its request: what it returned, the
\* issued descriptors that were outstanding when it came and those it issued
CallRefused(r) ==
    [ret |-> r.ret, seen |-> RingCount(dev.ring),
     issued |-> RingCount(r.mtk.ring) - RingCount(dev.ring)]

\* the trace an entry-point call with result r on menu entry k leaves: a new
\* request if it was accepted, a note of the refusal otherwise
Submitted(k, r) ==
    /\ dev' = r.mtk
    /\ IF r.ret \in {"EINPROGRESS", "EBUSY"}
       THEN reqs' = Append(reqs, ReqNew(k, r)) /\ fn' = [fn EXCEPT !.last.ret = r.ret]
       ELSE reqs' = reqs /\ fn' = [fn EXCEPT !.last = CallRefused(r)]

Init ==
    /\ fn = [op |-> "ring", last |-> [ret |-> "NONE", seen |-> 0, issued |-> 0]]
    /\ ctx = [t \in ReqTfms |-> KeyedCtx[t]]
    /\ dev = DevNew(MTK_RING_SIZE, 0)
    /\ reqs = << >>

\* mtk_skcipher_encrypt / mtk_skcipher_decrypt on a request of the menu
SkcipherCrypt ==
    /\ dev.oops = "ok" /\ Len(reqs) < MaxReqs
    /\ \E k \in SkcipherReqs :
         LET m == ReqMenu[k]
             id == Len(reqs) + 1
         IN  \E r \in { mtk_skcipher_crypt(dev, id, ctx[m.tfm], Tmpl[m.tfm], m.dir,
                                            m.req, BounceAddr(id), "none") } :
                 Submitted(k, r)
    /\ UNCHANGED ctx

\* mtk_aead_encrypt / mtk_aead_decrypt on a request of the menu
AeadCrypt ==
    /\ dev.oops = "ok" /\ Len(reqs) < MaxReqs
    /\ \E k \in AeadReqs :
         LET m == ReqMenu[k]
             id == Len(reqs) + 1
         IN  \E r \in { mtk_aead_crypt(dev, id, ctx[m.tfm], Tmpl[m.tfm], m.dir, m.req,
                                        MaxAuthSize(Tmpl[m.tfm].flags), BounceAddr(id),
                                        "none") } :
                 Submitted(k, r)
    /\ UNCHANGED ctx

\* the engine takes the next announced descriptor: it writes its output at
\* dstAddr and the control/status word of the result descriptor (ready bit and
\* error status) and counts the result; the length word with the second ready
\* bit follows in a later burst
HwProcess ==
    /\ dev.oops = "ok" /\ dev.PE_CD_COUNT > 0 /\ dev.late = {}
    /\ LET id == dev.ring.dma_buf[dev.hwptr].req
           rq == reqs[id]
           n == (dev.hwptr - rq.first + dev.ring.size) % dev.ring.size
           e == IF n \in ReqMenu[rq.shape].fault THEN 1 ELSE 0
           to == IF ~IsBounce(dev.ring.cdesc[dev.hwptr].dstAddr) THEN "out"
                 ELSE IF rq.rctx.sg_dst # << >> THEN "inb" ELSE "lost"
       IN  /\ dev' = [dev EXCEPT
                        !.ring.rdesc[dev.hwptr] = [ready1 |-> 1, ready2 |-> 0, errStatus |-> e],
                        !.PE_CD_COUNT = @ - 1, !.PE_RD_COUNT = @ + 1,
                        !.hwptr = (@ + 1) % dev.ring.size,
                        !.late = {dev.hwptr}]
           /\ reqs' = [reqs EXCEPT ![id][to] = @ \cup {n}]
    /\ UNCHANGED << fn, ctx >>

\* the engine's second burst lands: the length word of a result descriptor
HwLength ==
    /\ dev.oops = "ok"
    /\ \E i \in dev.late :
         dev' = [dev EXCEPT !.ring.rdesc[i].ready2 = 1, !.late = @ \ {i}]
    /\ UNCHANGED << fn, ctx, reqs >>

\* the result handler on the interrupt of the engine: it takes the request of
\* the side-table entry at the read pointer, calls its handle_result
\* (mtk_skcipher_handle_result / mtk_aead_handle_result -> mtk_req_result),
\* completes the request with ret if should_complete, and gives the retired
\* descriptors back (ring.requests, PE_RD_COUNT)
HandleResult ==
    /\ dev.oops = "ok" /\ dev.PE_RD_COUNT > 0
    /\ \E id \in { dev.ring.dma_buf[dev.ring.cdr.read].req } :
       \E r \in { mtk_req_result(dev, reqs[id].rctx, ReqMenu[reqs[id].shape].req.inplace,
                                 reqs[id].iv) } :
       LET slots(i) == { k \in 1..Len(r.owners) : r.owners[k].req = i }
           taken == { r.owners[k].slot : k \in 1..Len(r.owners) }
           of(i, set) == Cardinality({ k \in slots(i) : r.owners[k].slot \in set })
       IN  /\ dev' = [r.mtk EXCEPT
                        !.requests = @ - r.ndesc,
                        !.busy = IF dev.requests - r.ndesc = 0 THEN FALSE ELSE @,
                        !.PE_RD_COUNT = @ - r.ndesc,
                        !.late = @ \ taken]
           /\ reqs' = [i \in DOMAIN reqs |->
                         LET mine == i = id
                             early == i = id /\ r.last_entry /\ ~r.should_complete
                         IN
                         [reqs[i] EXCEPT
                            !.rctx = IF mine THEN r.rctx ELSE @,
                            !.iv = IF mine THEN r.reqiv ELSE @,
                            !.retired = @ + Cardinality(slots(i)),
                            !.errs = @ + of(i, r.errs),
                            !.unready = @ + of(i, r.unready),
                            !.ncomplete = IF mine /\ r.should_complete THEN @ + 1 ELSE @,
                            !.outcome = IF mine /\ r.should_complete THEN r.ret ELSE @,
                            !.nnotify = IF mine /\ r.notify THEN @ + 1 ELSE @,
                            !.earlyiv = IF early /\ r.ivcopy THEN @ + 1 ELSE @,
                            !.earlynotify = IF early /\ r.notify THEN @ + 1 ELSE @,
                            !.copied = IF mine /\ r.copyback
                                       THEN Append(@, reqs[i].retired + Cardinality(slots(i)))
                                       ELSE @,
                            !.out = IF mine /\ r.copyback THEN @ \cup reqs[i].inb ELSE @,
                            !.unmapped =
                                IF mine /\ r.last_entry
                                THEN @ \o ResultDmaUnmaps(ReqMenu[reqs[i].shape].req.src,
                                                          ReqMenu[reqs[i].shape].req.dst,
                                                          ReqMenu[reqs[i].shape].req.inplace,
                                                          reqs[i].rctx)
                                ELSE @,
                            !.nfree = IF mine
                                      THEN @ + (IF reqs[i].rctx.sg_src # r.rctx.sg_src
                                                THEN 1 ELSE 0)
                                             + (IF reqs[i].rctx.sg_dst # r.rctx.sg_dst
                                                THEN 1 ELSE 0)
                                      ELSE @,
                            !.slotiv = IF mine /\ r.should_complete
                                       THEN dev.saState[dev.ring.dma_buf[
                                                r.owners[Len(r.owners)].slot].saPointer]
                                       ELSE @]]
    /\ UNCHANGED << fn, ctx >>

Next == SkcipherCrypt \/ AeadCrypt \/ HwProcess \/ HwLength \/ HandleResult

Spec == Init /\ [][Next]_vars

\* request i was accepted: the entry point answered in-progress or backlog
Accepted(i) == reqs[i].ret \in {"EINPROGRESS", "EBUSY"}

\* request i went through a CTR-overflow split
WasSplit(i) == reqs[i].rctx.ctr_src # << >>

C2_Backpressure ==
    /\ dev.requests = RingCount(dev.ring)
    /\ fn.last.ret \in {"NONE", "EAGAIN", "EINPROGRESS", "EBUSY"}
    /\ fn.last.ret = "EAGAIN" => (fn.last.seen > MTK_RING_BUSY /\ fn.last.issued = 0)
    /\ \A i \in DOMAIN reqs :
         /\ Accepted(i) /\ reqs[i].ndesc >= 1
         /\ reqs[i].seen <= MTK_RING_BUSY

C2_Witness ==
    /\ fn.last.ret = "EBUSY"
    /\ \E j \in DOMAIN reqs :
         /\ reqs[j].after /\ reqs[j].seen = 0
         /\ \E h \in 1..(j - 1) : reqs[h].ncomplete = 1

\* C6: a request one of whose retired result descriptors carried an error status
\* is completed with an error outcome.
C6_ErrorReported ==
    \A i \in DOMAIN reqs :
        (reqs[i].ncomplete >= 1 /\ reqs[i].errs > 0) => reqs[i].outcome # "OK"

\* C7: a request one of whose result descriptors was taken after the bounded
\* polling without both ready bits set is completed with an error outcome.
C7_UnreadyIsError ==
    \A i \in DOMAIN reqs :
        (reqs[i].ncomplete >= 1 /\ reqs[i].unready > 0) => reqs[i].outcome # "OK"

\* C18: retiring a LAST descriptor without FINISH (the end of the first half of
\* a CTR-overflow split) neither writes the caller's IV buffer nor notifies the
\* request, whether the request runs in place or through bounce buffers.
C18_NothingBeforeFinish ==
    \A i \in DOMAIN reqs : reqs[i].earlyiv = 0 /\ reqs[i].earlynotify = 0

\* C24: once a request is reported complete, the caller's IV buffer holds, for
\* CBC and for counter mode without RFC3686, the first ivsize bytes of the SA
\* state slot named by the side-table entry of its last descriptor; for ECB and
\* RFC3686 it holds what the caller put there.
C24_IvReadBack ==
    \A i \in DOMAIN reqs :
        reqs[i].ncomplete >= 1 =>
            LET flags == reqs[i].rctx.flags
                iv0 == ReqMenu[reqs[i].shape].req.iv
            IN  IF ~IS_RFC3686(flags) /\ (IS_CBC(flags) \/ IS_CTR(flags))
                THEN /\ Len(reqs[i].iv) = Len(iv0)
                     /\ \A k \in 1..reqs[i].rctx.ivsize : reqs[i].iv[k] = reqs[i].slotiv[k]
                ELSE reqs[i].iv = iv0

\* a split request and an RFC3686 request both reported complete, the split one
\* with an IV that is no longer the caller's
C24_Witness ==
    \E i, j \in DOMAIN reqs :
        /\ reqs[i].ncomplete = 1 /\ WasSplit(i)
        /\ reqs[i].iv # ReqMenu[reqs[i].shape].req.iv
        /\ reqs[j].ncomplete = 1 /\ IS_RFC3686(reqs[j].rctx.flags)

\* C28: a submission that adds descriptors to ring.requests writes the ring
\* threshold exactly when the ring was idle, with the outstanding descriptors
\* less one as pending count, leaves ring.busy set, and announces just the
\* descriptors it added; on a ring that is not idle the threshold stays.
C28_ThresholdOnIdle ==
    [][ dev'.requests > dev.requests =>
          /\ dev'.busy
          /\ dev'.PE_CD_COUNT = dev.PE_CD_COUNT + (dev'.requests - dev.requests)
          /\ dev'.PE_RING_THRESH = IF dev.busy THEN dev.PE_RING_THRESH
                                   ELSE dev'.requests - 1 ]_vars

\* the ring slot of descriptor k (0, 1, ...) of request i
ReqSlot(i, k) == (reqs[i].first + k) % dev.ring.size

\* C29: the side-table entry of every descriptor pair that is issued and not
\* retired holds the request that issued the pair and the SA state slot the
\* pair's state address names.
C29_SideTableTrue ==
    \A i \in DOMAIN reqs :
        \A k \in reqs[i].retired..(reqs[i].ndesc - 1) :
            /\ dev.ring.dma_buf[ReqSlot(i, k)].flags # {}
            /\ dev.ring.dma_buf[ReqSlot(i, k)].req = i
            /\ dev.ring.dma_buf[ReqSlot(i, k)].saPointer = dev.ring.cdesc[ReqSlot(i, k)].stateAddr

\* two requests with unretired pairs, one of them on its second descriptor
C29_Witness ==
    /\ Len(reqs) = 2 /\ reqs[2].retired < reqs[2].ndesc
    /\ reqs[1].retired = 1 /\ reqs[1].ndesc = 2 /\ ~WasSplit(1)

\* C30: a call of the result handler retires the pairs at the read pointer, in
\* ring order and no more than the engine reported; none but the last of them
\* carries LAST; and for every request they are its next unretired pairs in
\* the order they were issued.
C30_RetireInOrder ==
    [][ dev'.ring.cdr.read # dev.ring.cdr.read =>
          LET size == dev.ring.size
              n == (dev'.ring.cdr.read - dev.ring.cdr.read + size) % size
              slot(j) == (dev.ring.cdr.read + j) % size
              taken == { slot(j) : j \in 0..(n - 1) }
          IN  /\ n <= dev.PE_RD_COUNT
              /\ dev'.ring.rdr.read = dev'.ring.cdr.read
              /\ \A j \in 0..(n - 1) :
                    /\ dev.ring.dma_buf[slot(j)].flags # {}
                    /\ dev'.ring.dma_buf[slot(j)].flags = {}
                    /\ j < n - 1 => "LAST" \notin dev.ring.dma_buf[slot(j)].flags
              /\ \A k \in 0..(size - 1) \ taken :
                    dev'.ring.dma_buf[k].flags = dev.ring.dma_buf[k].flags
              /\ \A i \in DOMAIN reqs :
                    { ReqSlot(i, k) : k \in reqs[i].retired..(reqs'[i].retired - 1) }
                        = { k \in taken : dev.ring.dma_buf[k].req = i } ]_vars

\* both halves of a split request were retired, each by a call of its own, and
\* pairs of another request after them
C30_Witness ==
    /\ Len(reqs) = 2 /\ WasSplit(1) /\ reqs[1].retired = 2
    /\ Len(reqs[1].copied) + reqs[1].earlyiv >= 1
    /\ reqs[2].retired >= 1

\* C19: the copy-back from a bounce destination into the caller's list happens
\* once, and only when every descriptor of the request has been retired; a
\* request that was not given a bounce destination is never copied back.
C19_CopyBackAtEnd ==
    \A i \in DOMAIN reqs :
        /\ Len(reqs[i].copied) <= 1
        /\ \A k \in DOMAIN reqs[i].copied : reqs[i].copied[k] = reqs[i].ndesc

\* C16: a request reported complete without error has the engine's output of
\* every one of its descriptors in the caller's destination, which decrypting
\* what was encrypted needs to give the plaintext back.
C16_OutputDelivered ==
    \A i \in DOMAIN reqs :
        (reqs[i].ncomplete >= 1 /\ reqs[i].outcome = "OK") =>
            /\ reqs[i].lost = {}
            /\ reqs[i].out = 0..(reqs[i].ndesc - 1)

\* C33: a bounce buffer of a request is freed once, by the time the request is
\* reported complete, and not while a descriptor pair of the request that names
\* an address inside it is issued and unretired (so not between the two halves
\* of a split request).
C33_BounceFreedOnce ==
    \A i \in DOMAIN reqs :
        /\ reqs[i].nfree <= reqs[i].nbounce
        /\ reqs[i].ncomplete >= 1 => reqs[i].nfree = reqs[i].nbounce
        /\ \A k \in reqs[i].retired..(reqs[i].ndesc - 1) :
              LET cd == dev.ring.cdesc[ReqSlot(i, k)]
              IN  /\ IsBounce(cd.srcAddr) => reqs[i].rctx.sg_src # << >>
                  /\ IsBounce(cd.dstAddr) => reqs[i].rctx.sg_dst # << >>

\* how often x occurs in the sequence q
Occurs(q, x) == Cardinality({ k \in DOMAIN q : q[k] = x })

\* C34: no list is unmapped more often than it was mapped with that direction
\* for the request, and once the request is reported complete every mapping
\* made for it (those of the second half of a split included) has been
\* unmapped, on its list and with its direction.
C34_MapsUnmapped ==
    \A i \in DOMAIN reqs :
        LET M == reqs[i].mapped
            U == reqs[i].unmapped
        IN  /\ \A k \in DOMAIN U : Occurs(U, U[k]) <= Occurs(M, U[k])
            /\ reqs[i].ncomplete >= 1 =>
                  \A k \in DOMAIN M : Occurs(U, M[k]) = Occurs(M, M[k])

-----------------------------------------------------------------------------
(* Specification SpecLive: Spec with an engine that works every announced    *)
(* descriptor off and a result handler that runs whenever results are        *)
(* reported                                                                  *)

SpecLive ==
    /\ Init /\ [][Next]_vars
    /\ WF_vars(HwProcess) /\ WF_vars(HwLength) /\ WF_vars(HandleResult)

\* C14: with an engine that finishes every announced descriptor and a result
\* handler that keeps being called, every request an entry point accepted
\* (in-progress or backlog) is eventually reported complete.
C14_EventuallyComplete ==
    \A i \in 1..MaxReqs :
        (i \in DOMAIN reqs /\ Accepted(i)) ~> (i \in DOMAIN reqs /\ reqs[i].ncomplete >= 1)

\* every request of a full behaviour was accepted and reported complete, and the
\* ring is drained
C14_Witness ==
    /\ Len(reqs) = MaxReqs
    /\ \A i \in DOMAIN reqs : Accepted(i) /\ reqs[i].ncomplete = 1
    /\ dev.requests = 0 /\ dev.PE_RD_COUNT = 0 /\ RingEmpty(dev.ring.cdr)

-----------------------------------------------------------------------------
(* Specification SpecBypass: one mtk_skcipher_encrypt / mtk_skcipher_decrypt *)
(* call, on a transform with or without a software fallback, on a device     *)
(* whose ring still holds descriptors of earlier requests                    *)

\* every transform with a key set, the skcipher ones with a fallback if fb
KeyedCtxFb(fb) ==
    [t \in Tfms |->
        IF Tmpl[t].type = "aead" THEN KeyedCtx[t]
        ELSE mtk_skcipher_setkey(CtxInit(fb), Tmpl[t], 1, Tmpl[t].min_keysize,
                                 FALSE, FALSE).ctx]

\* request lengths on both sides of the bypass threshold
BypassCryptLens ==
    {16, NUM_AES_BYPASS - 16, NUM_AES_BYPASS, NUM_AES_BYPASS + 16}

InitBypass ==
    /\ reqs = << >>
    /\ \E fb \in BOOLEAN : ctx = KeyedCtxFb(fb)
    /\ \E used \in 0..(SendRingSize - 3) : dev = DevUsed(SendRingSize, 0, used)
    /\ \E t \in {"ecb_des", "cbc_des3_ede", "ecb_aes", "cbc_aes", "ctr_aes", "rfc3686_aes"},
          dir \in {"ENCRYPT", "DECRYPT"}, cryptlen \in BypassCryptLens,
          inplace \in BOOLEAN :
         fn = [op |-> "skcipher_crypt", done |-> FALSE, tfm |-> t, dir |-> dir,
               req |-> Req(<< Seg(4096, 0, cryptlen) >>,
                           << Seg(IF inplace THEN 4096 ELSE 8192, 0, cryptlen) >>,
                           inplace, SendIv(Tmpl[t].ivsize, 17, << 0, 0, 0, 1 >>),
                           cryptlen, 0),
               before |-> dev, ret |-> "NONE", commands |-> 0]

\* mtk_skcipher_encrypt / mtk_skcipher_decrypt on the request of fn
CallSkcipherCrypt ==
    /\ fn.op = "skcipher_crypt" /\ ~fn.done
    /\ \E r \in { mtk_skcipher_crypt(dev, 1, ctx[fn.tfm], Tmpl[fn.tfm], fn.dir, fn.req,
                                      BounceAddr(1), "none") } :
          /\ dev' = r.mtk
          /\ fn' = [fn EXCEPT !.done = TRUE, !.ret = r.ret, !.commands = r.commands]
    /\ UNCHANGED << ctx, reqs >>

NextBypass == CallSkcipherCrypt

SpecBypass == InitBypass /\ [][NextBypass]_vars

\* C15: a skcipher request shorter than NUM_AES_BYPASS on a transform with a
\* software fallback goes to the fallback: the call issues no descriptor and
\* leaves ring, ring.requests and the registers as they were, also when the ring
\* is over its busy threshold.
C15_BypassLeavesDevice ==
    (/\ fn.op = "skcipher_crypt" /\ fn.done
     /\ ctx[fn.tfm].fallback /\ fn.req.cryptlen < NUM_AES_BYPASS) =>
        /\ dev = fn.before
        /\ fn.commands = 0
        /\ fn.ret = "OK"

\* a short request on a transform with fallback, made while the ring is over its
\* busy threshold
C15_Witness ==
    /\ fn.op = "skcipher_crypt" /\ fn.done
    /\ ctx[fn.tfm].fallback /\ fn.req.cryptlen = NUM_AES_BYPASS - 16
    /\ fn.before.requests > MTK_RING_BUSY
    /\ fn.ret = "OK" /\ dev = fn.before

-----------------------------------------------------------------------------
(* Specification SpecCrypt: one call of an entry point (mtk_skcipher_encrypt, *)
(* mtk_skcipher_decrypt, mtk_aead_encrypt, mtk_aead_decrypt) on a device      *)
(* whose ring may hold descriptors of earlier requests, with requests that    *)
(* are accepted and requests that are refused                                 *)

CryptTfms ==
    {"cbc_aes", "ctr_aes", "authenc_hmac_sha1_cbc_aes", "authenc_hmac_sha256_ctr_aes"}

\* req->cryptlen: nothing, less than a block, less than a tag, whole blocks, and
\* whole blocks followed by a 20-byte tag
CryptLens == {0, 4, 8, 16, 32, 36}

CryptAssocLens == {0, 16, 32}

\* the bytes a caller's list holds at least: a list as long as the request needs
\* it, never an empty one
CryptNeed(n) == IF n >= 16 THEN n ELSE 16

InitCrypt ==
    /\ reqs = << >> /\ ctx = KeyedCtx
    /\ \E used \in 0..(MTK_RING_BUSY + 1) : dev = DevUsed(SendRingSize, 0, used)
    /\ \E t \in CryptTfms, dir \in {"ENCRYPT", "DECRYPT"}, cryptlen \in CryptLens,
          assoclen \in CryptAssocLens, ls \in {"one", "two", "unaligned", "short"},
          inplace \in BOOLEAN, nomem \in {"none", "src", "dst"},
          counter \in {<< 0, 0, 0, 1 >>, << 255, 255, 255, 255 >>} :
         LET tmpl == Tmpl[t]
             aead == tmpl.type = "aead"
             authsize == MaxAuthSize(tmpl.flags)
             need_src == assoclen + cryptlen
             need_dst == IF ~aead THEN cryptlen
                         ELSE IF dir = "ENCRYPT" THEN need_src + authsize
                         ELSE need_src - authsize
             need == IF need_src > need_dst THEN need_src ELSE need_dst
             src == SendList(ls, 4096, CryptNeed(IF inplace THEN need ELSE need_src))
             dst == IF inplace THEN src ELSE SendList("one", 8192, CryptNeed(need_dst))
         IN  /\ aead \/ assoclen = 0
             /\ ls = "two" => need_src > 16
             /\ nomem # "none" => (aead \/ ls = "unaligned")
             /\ counter # << 0, 0, 0, 1 >> => t = "ctr_aes"
             /\ fn = [op |-> "crypt", done |-> FALSE, tfm |-> t, dir |-> dir,
                      req |-> Req(src, dst, inplace, SendIv(tmpl.ivsize, 17, counter),
                                  cryptlen, assoclen),
                      authsize |-> authsize, nomem |-> nomem, before |-> dev,
                      ret |-> "NONE", commands |-> 0, called |-> FALSE,
                      rctx |-> RctxZero]

\* mtk_skcipher_encrypt / mtk_skcipher_decrypt / mtk_aead_encrypt /
\* mtk_aead_decrypt on the request of fn
CallCrypt ==
    /\ fn.op = "crypt" /\ ~fn.done
    /\ \E r \in { IF Tmpl[fn.tfm].type = "aead"
                   THEN mtk_aead_crypt(dev, 1, ctx[fn.tfm], Tmpl[fn.tfm], fn.dir, fn.req,
                                       fn.authsize, BounceAddr(1), fn.nomem)
                   ELSE mtk_skcipher_crypt(dev, 1, ctx[fn.tfm], Tmpl[fn.tfm], fn.dir,
                                           fn.req, BounceAddr(1), fn.nomem) } :
          /\ dev' = r.mtk
          /\ fn' = [fn EXCEPT !.done = TRUE, !.ret = r.ret, !.commands = r.commands,
                              !.called = r.called, !.rctx = r.rctx]
    /\ UNCHANGED << ctx, reqs >>

NextCrypt == CallCrypt

SpecCrypt == InitCrypt /\ [][NextCrypt]_vars

\* the descriptor pairs the call wrote into the ring
CryptWritten ==
    (dev.ring.cdr.write - fn.before.ring.cdr.write + dev.ring.size) % dev.ring.size

\* C32: an entry point that returns answers in-progress or backlog exactly when
\* it wrote descriptor pairs into the ring; then ring.requests grew by the
\* number of pairs written and that number was written to the command-count
\* register; with every other return value the ring, ring.requests and the
\* command-count register are as they were before the call.
C32_ReturnTellsIssue ==
    (fn.op = "crypt" /\ fn.done /\ fn.ret # "OOPS") =>
        /\ fn.ret \in {"EINPROGRESS", "EBUSY"} <=> CryptWritten > 0
        /\ fn.ret \in {"EINPROGRESS", "EBUSY"} =>
              /\ dev.requests = fn.before.requests + CryptWritten
              /\ dev.PE_CD_COUNT = fn.before.PE_CD_COUNT + CryptWritten
              /\ dev.ring.rdr.write = dev.ring.cdr.write
        /\ fn.ret \notin {"EINPROGRESS", "EBUSY"} =>
              /\ dev.ring = fn.before.ring
              /\ dev.requests = fn.before.requests
              /\ dev.PE_CD_COUNT = fn.before.PE_CD_COUNT

\* a call answered with backlog after it wrote two pairs behind an outstanding
\* one
C32_Witness ==
    /\ fn.op = "crypt" /\ fn.done /\ fn.ret = "EBUSY"
    /\ fn.before.requests = 1 /\ CryptWritten = 2 /\ dev.requests = 3

\* C36: an entry point whose mtk_send_req failed hands the error to the caller
\* once: it returns the error and has not called the request's completion
\* callback as well.
C36_ErrorOnce ==
    (fn.op = "crypt" /\ fn.done /\ fn.ret \in {"EINVAL", "ENOMEM"}) => ~fn.called

\* C37: an AEAD decrypt request whose cryptlen is shorter than the tag gets no
\* descriptor: the call writes nothing into the ring and does not answer
\* in-progress or backlog.
C37_ShortDecryptRefused ==
    (/\ fn.op = "crypt" /\ fn.done
     /\ Tmpl[fn.tfm].type = "aead" /\ fn.dir = "DECRYPT"
     /\ fn.req.cryptlen < fn.authsize) =>
        /\ CryptWritten = 0
        /\ fn.ret \notin {"EINPROGRESS", "EBUSY"}

-----------------------------------------------------------------------------
(* Specification SpecRace: MaxSubmitters callers run mtk_skcipher_crypt or   *)
(* mtk_aead_crypt on requests of the menu at the same time; each call goes   *)
(* through its busy test, mtk_send_req (under desc_lock) and the accounting  *)
(* (under ring.lock) as three steps that other callers' steps come between   *)

MaxSubmitters == 3

\* ring slots of the device the callers share
RaceRingSize == 4

Submitters == 1..MaxSubmitters

\* the requests the callers make: cbc(aes) over one segment in place, ctr(aes)
\* over one segment in place with a counter that wraps after the first block,
\* and ctr(aes) over two segments in place with a counter that wraps after the
\* second block, so that the first half takes two descriptors
RaceMenu ==
    << ReqMenu[1], ReqMenu[2],
       [tfm |-> "ctr_aes", dir |-> "ENCRYPT", fault |-> {},
        req |-> Req(<< Seg(4096, 0, 16), Seg(4352, 0, 32) >>,
                    << Seg(4096, 0, 16), Seg(4352, 0, 32) >>, TRUE,
                    SendIv(16, 17, << 255, 255, 255, 254 >>), 48, 0)] >>

\* the request context the entry point of menu entry m prepares
RaceRctx(m) ==
    IF Tmpl[m.tfm].type = "aead"
    THEN AeadRctx(Tmpl[m.tfm], m.dir, m.req.cryptlen, m.req.assoclen,
                  MaxAuthSize(Tmpl[m.tfm].flags))
    ELSE SkcipherRctx(Tmpl[m.tfm], m.dir, m.req.cryptlen)

\* a caller about to make the busy test on menu entry k
SubNew(k) ==
    [pc |-> "check", shape |-> k, ret |-> "NONE", rctx |-> RaceRctx(RaceMenu[k]),
     commands |-> 0, seen |-> 0, counted |-> 0]

InitRace ==
    /\ \E ks \in [Submitters -> DOMAIN RaceMenu] :
         fn = [op |-> "race", sub |-> [p \in Submitters |-> SubNew(ks[p])]]
    /\ ctx = [t \in ReqTfms |-> KeyedCtx[t]]
    /\ dev = DevNew(RaceRingSize, 0)
    /\ reqs = << >>

\* line 819 / 1062: if (mtk->ring[0].requests > MTK_RING_BUSY) return -EAGAIN;
\* the test is made without a lock
RaceCheck(p) ==
    /\ dev.oops = "ok" /\ fn.sub[p].pc = "check"
    /\ fn' = [fn EXCEPT !["sub"][p] =
                 IF RingIsBusy(dev.requests)
                 THEN [@ EXCEPT !.pc = "done", !.ret = "EAGAIN"]
                 ELSE [@ EXCEPT !.pc = "send"]]
    /\ UNCHANGED << ctx, dev, reqs >>

\* lines 822-831 / 1065-1074: mtk_send_req and the returns on its outcome; seen
\* is the number of descriptors in the ring when the call writes its own,
\* counted what ring.requests holds then
RaceSend(p) ==
    /\ dev.oops = "ok" /\ fn.sub[p].pc = "send"
    /\ LET m == RaceMenu[fn.sub[p].shape]
       IN  \E r \in { mtk_send_req(dev, p, ctx[m.tfm], Tmpl[m.tfm].type = "aead",
                                    m.req.src, m.req.dst, m.req.inplace, m.req.iv,
                                    fn.sub[p].rctx, BounceAddr(p), "none") } :
             /\ dev' = IF r.status # "ok" THEN [r.mtk EXCEPT !.oops = r.status] ELSE r.mtk
             /\ fn' = [fn EXCEPT !["sub"][p] =
                          [@ EXCEPT !.pc = IF r.status = "ok" /\ r.ret = "OK" /\ r.commands > 0
                                           THEN "account" ELSE "done",
                                    !.ret = IF r.status # "ok" THEN "OOPS" ELSE r.ret,
                                    !.rctx = r.rctx, !.commands = r.commands,
                                    !.seen = RingCount(dev.ring),
                                    !.counted = dev.requests]]
    /\ UNCHANGED << ctx, reqs >>

\* lines 833-855 / 1076-1098: the accounting under ring.lock and the write of
\* the command count
RaceAccount(p) ==
    /\ dev.oops = "ok" /\ fn.sub[p].pc = "account"
    /\ LET m == RaceMenu[fn.sub[p].shape]
           cap == IF Tmpl[m.tfm].type = "aead" THEN 0 ELSE SkPendingMax
       IN  \E r \in { CryptAccount(SendResult("OK", "ok", dev, fn.sub[p].rctx,
                                               fn.sub[p].commands, 0),
                                    dev.requests, cap) } :
             /\ dev' = r.mtk
             /\ fn' = [fn EXCEPT !["sub"][p] =
                          [@ EXCEPT !.pc = "done", !.ret = r.ret, !.rctx = r.rctx]]
    /\ UNCHANGED << ctx, reqs >>

\* the engine works off the descriptors announced to it and the result handler
\* runs once: mtk_req_result on the request of the side-table entry at the read
\* pointer, then the retired descriptors are given back (ring.requests,
\* PE_RD_COUNT)
RaceReap ==
    /\ dev.oops = "ok" /\ dev.PE_CD_COUNT + dev.PE_RD_COUNT > 0
    /\ LET n == dev.ring.size
           worked == [dev EXCEPT
                        !.ring.rdesc = [i \in 0..(n - 1) |->
                                          IF (i - dev.hwptr + n) % n < dev.PE_CD_COUNT
                                          THEN [ready1 |-> 1, ready2 |-> 1, errStatus |-> 0]
                                          ELSE @[i]],
                        !.hwptr = (@ + dev.PE_CD_COUNT) % n,
                        !.PE_RD_COUNT = @ + dev.PE_CD_COUNT,
                        !.PE_CD_COUNT = 0]
           p == dev.ring.dma_buf[dev.ring.cdr.read].req
       IN  \E r \in { mtk_req_result(worked, fn.sub[p].rctx,
                                      RaceMenu[fn.sub[p].shape].req.inplace,
                                      RaceMenu[fn.sub[p].shape].req.iv) } :
             /\ dev' = [r.mtk EXCEPT
                          !.requests = @ - r.ndesc,
                          !.busy = IF dev.requests - r.ndesc = 0 THEN FALSE ELSE @,
                          !.PE_RD_COUNT = @ - r.ndesc]
             /\ fn' = [fn EXCEPT !.sub[p].rctx = r.rctx]
    /\ UNCHANGED << ctx, reqs >>

NextRace ==
    \/ \E p \in Submitters : RaceCheck(p) \/ RaceSend(p) \/ RaceAccount(p)
    \/ RaceReap

SpecRace == InitRace /\ [][NextRace]_vars

\* C20: no caller writes descriptors into a ring that holds more than
\* MTK_RING_BUSY descriptors written by callers before it, whether or not
\* these have added them to ring.requests yet.
C20_NoIssueWhenBusy ==
    \A p \in Submitters :
        (fn.op = "race" /\ fn.sub[p].commands > 0) => fn.sub[p].seen <= MTK_RING_BUSY

\* the descriptor pairs issued and not retired, counted from the side table:
\* mtk_scatter_combine sets the flags of an entry, mtk_req_result clears them
LivePairs(ring) == Cardinality({ i \in 0..(ring.size - 1) : ring.dma_buf[i].flags # {} })

\* the descriptor pairs callers 1..p have written into the ring
RECURSIVE RaceWritten(_)
RaceWritten(p) ==
    IF p = 0 THEN 0
    ELSE RaceWritten(p - 1)
           + (IF fn.sub[p].pc \in {"account", "done"} THEN fn.sub[p].commands ELSE 0)

\* the descriptor pairs callers 1..p have written to the command-count register
RECURSIVE RaceAnnounced(_)
RaceAnnounced(p) ==
    IF p = 0 THEN 0
    ELSE RaceAnnounced(p - 1)
           + (IF fn.sub[p].pc = "done" /\ fn.sub[p].ret \in {"EINPROGRESS", "EBUSY"}
              THEN fn.sub[p].commands ELSE 0)

\* the descriptor pairs the engine was told of: those it still has to work on,
\* those it reported and the handler has not taken, and those retired
RaceEngineTold ==
    dev.PE_CD_COUNT + dev.PE_RD_COUNT + (RaceWritten(MaxSubmitters) - LivePairs(dev.ring))

\* C27: what has been written to the command-count register in all is the
\* number of pairs of the callers that finished their call, each counted once;
\* it never exceeds the pairs written into the ring, and the engine is never
\* told of a slot beyond the write pointer.
C27_AnnouncedAfterWritten ==
    (fn.op = "race" /\ dev.oops = "ok") =>
        /\ RaceEngineTold = RaceAnnounced(MaxSubmitters)
        /\ RaceEngineTold <= RaceWritten(MaxSubmitters)
        /\ dev.PE_CD_COUNT <= (dev.ring.cdr.write - dev.hwptr + dev.ring.size) % dev.ring.size

\* a caller has written pairs it has not announced while another caller's
\* announced pairs are with the engine
C27_Witness ==
    /\ fn.op = "race" /\ dev.oops = "ok" /\ dev.PE_CD_COUNT > 0
    /\ RaceAnnounced(MaxSubmitters) < RaceWritten(MaxSubmitters)
    /\ \E p \in Submitters : fn.sub[p].pc = "account" /\ fn.sub[p].seen > 0

\* the ring slots whose descriptor pair is issued and not retired
LiveSlots(ring) == { i \in 0..(ring.size - 1) : ring.dma_buf[i].flags # {} }

\* C25: no two descriptor pairs that are issued and not retired, and belong to
\* different requests, name the same SA record slot or the same SA state slot.
C25_SlotsPrivate ==
    fn.op = "race" =>
        \A i, j \in LiveSlots(dev.ring) :
            dev.ring.dma_buf[i].req # dev.ring.dma_buf[j].req =>
                /\ dev.ring.cdesc[i].saAddr # dev.ring.cdesc[j].saAddr
                /\ dev.ring.cdesc[i].stateAddr # dev.ring.cdesc[j].stateAddr

\* C21: at every moment at most ring size - 1 descriptor pairs are issued and
\* not retired, and the ring pointers tell their number, whatever callers and
\* the result handler do in whatever order.
C21_RingNeverOverfull ==
    fn.op = "race" =>
        /\ LivePairs(dev.ring) <= dev.ring.size - 1
        /\ LivePairs(dev.ring) = RingCount(dev.ring)

\* the ring holds size - 1 pairs and a further caller was refused a descriptor
C21_Witness ==
    /\ fn.op = "race" /\ LivePairs(dev.ring) = dev.ring.size - 1
    /\ dev.oops = "err_ptr_write"

-----------------------------------------------------------------------------
(* Specification SpecLock: the callers of SpecRace with mtk_send_req taken   *)
(* apart at the point between the two mtk_scatter_combine calls of a split   *)
(* request; desc_lock is held from the read of the write pointer (line 451)  *)
(* to the end of the last mtk_scatter_combine (line 522).  The lists of the  *)
(* menu are in place, cache-line and block aligned, so lines 392-416 give no *)
(* bounce buffer.                                                            *)

\* a desc_lock nobody ever holds
DescLockFree_Always(sub) == TRUE

\* spin_lock(&mtk->ring[0].desc_lock) succeeds: no caller stands between the
\* two halves of its request
DescLockFree(sub) == \A q \in DOMAIN sub : sub[q].pc # "tail"

\* a caller of SpecLock: wptr is the write pointer it read under the lock,
\* results the result descriptors of its first half
LockNew(k) == SubNew(k) @@ [wptr |-> 0, results |-> 0]

InitLock ==
    /\ \E ks \in [Submitters -> DOMAIN RaceMenu] :
         fn = [op |-> "lock", sub |-> [p \in Submitters |-> LockNew(ks[p])]]
    /\ ctx = [t \in ReqTfms |-> KeyedCtx[t]]
    /\ dev = DevNew(RaceRingSize, 0)
    /\ reqs = << >>

\* mtk_send_req up to line 499: the whole call for a request that is not split;
\* for a split one the lock, the SA slots and the mtk_scatter_combine of the
\* first half
LockFirst(p) ==
    /\ dev.oops = "ok" /\ fn.sub[p].pc = "send" /\ DescLockFree(fn.sub)
    /\ LET m == RaceMenu[fn.sub[p].shape]
           c == ctx[m.tfm]
           aead == Tmpl[m.tfm].type = "aead"
           rctx0 == fn.sub[p].rctx
           datalen == rctx0.assoclen + rctx0.textsize
           nents == sg_nents_for_len(m.req.src, datalen)
           rctx1 == [rctx0 EXCEPT !.src_nents = nents, !.dst_nents = nents]
           iv == ReadIv(m.req.iv)
       IN  IF CtrOverflow(rctx0.flags, iv, datalen)
           THEN \E h \in { SendHead(dev, c, aead, m.req.iv, rctx1) } :
                \E r1 \in { mtk_scatter_combine(dev.ring, h.wptr, h.wptr, m.req.src,
                                                 m.req.dst, CtrOffset(iv), FALSE, p) } :
                  /\ dev' = [h.mtk EXCEPT !.ring = r1.ring, !.oops = r1.status]
                  /\ fn' = [fn EXCEPT !["sub"][p] =
                               [@ EXCEPT !.pc = IF r1.status = "ok" THEN "tail" ELSE "done",
                                         !.ret = IF r1.status # "ok" THEN "OOPS" ELSE @,
                                         !.rctx = rctx1, !.commands = r1.commands,
                                         !.results = r1.results, !.wptr = h.wptr,
                                         !.seen = RingCount(dev.ring),
                                         !.counted = dev.requests]]
           ELSE \E r \in { mtk_send_req(dev, p, c, aead, m.req.src, m.req.dst,
                                         m.req.inplace, m.req.iv, rctx0, BounceAddr(p),
                                         "none") } :
                  /\ dev' = [r.mtk EXCEPT !.oops = r.status]
                  /\ fn' = [fn EXCEPT !["sub"][p] =
                               [@ EXCEPT !.pc = IF r.status = "ok" /\ r.ret = "OK"
                                                     /\ r.commands > 0
                                                THEN "account" ELSE "done",
                                         !.ret = IF r.status # "ok" THEN "OOPS" ELSE r.ret,
                                         !.rctx = r.rctx, !.commands = r.commands,
                                         !.results = r.results,
                                         !.wptr = mtk_ring_curr_wptr_index(dev.ring),
                                         !.seen = RingCount(dev.ring),
                                         !.counted = dev.requests]]
    /\ UNCHANGED << ctx, reqs >>

\* lines 500-527 of mtk_send_req for a split request: the jump to offset, the
\* new SA state slot, the second mtk_scatter_combine and the unlock
LockSecond(p) ==
    /\ dev.oops = "ok" /\ fn.sub[p].pc = "tail"
    /\ LET m == RaceMenu[fn.sub[p].shape]
           rctx == fn.sub[p].rctx
           iv == ReadIv(m.req.iv)
           r1 == [ring |-> dev.ring, commands |-> fn.sub[p].commands,
                  results |-> fn.sub[p].results, status |-> "ok"]
       IN  \E r \in { SendTail(dev, p, rctx, r1, fn.sub[p].wptr, m.req.src, m.req.dst,
                                m.req.inplace, CtrOffset(iv),
                                rctx.assoclen + rctx.textsize, CtrWrapIv(iv)) } :
             /\ dev' = [r.mtk EXCEPT !.oops = r.status]
             /\ fn' = [fn EXCEPT !["sub"][p] =
                          [@ EXCEPT !.pc = IF r.status = "ok" /\ r.commands > 0
                                           THEN "account" ELSE "done",
                                    !.ret = IF r.status # "ok" THEN "OOPS" ELSE r.ret,
                                    !.rctx = r.rctx, !.commands = r.commands,
                                    !.results = r.results]]
    /\ UNCHANGED << ctx, reqs >>

NextLock ==
    \/ \E p \in Submitters :
          RaceCheck(p) \/ LockFirst(p) \/ LockSecond(p) \/ RaceAccount(p)
    \/ RaceReap

SpecLock == InitLock /\ [][NextLock]_vars

\* C31: when a caller leaves mtk_send_req, the descriptor pairs it wrote, those
\* of both halves of a split included, stand in consecutive ring slots from the
\* write pointer it read under desc_lock on, every one of them recorded for its
\* request and naming the SA record slot of that index, and the first of them
\* naming the SA state slot of that index, whatever other callers do meanwhile.
C31_PairsTogether ==
    [][ \A p \in Submitters :
          (/\ fn.op = "lock" /\ fn.sub[p].pc \in {"send", "tail"}
           /\ fn'.sub[p].pc \in {"account", "done"}) =>
             \A j \in 0..(fn'.sub[p].commands - 1) :
                LET w == fn'.sub[p].wptr
                    k == (w + j) % dev.ring.size
                IN  /\ dev'.ring.dma_buf[k].req = p
                    /\ dev'.ring.cdesc[k].saAddr = w
                    /\ j = 0 => /\ dev'.ring.cdesc[k].stateAddr = w
                                /\ dev'.ring.dma_buf[k].saPointer = w ]_vars

\* a caller wrote the two pairs of a split request behind another caller's
\* pair, and a third caller wrote its own right behind them while they were
\* still in the ring
C31_Witness ==
    /\ fn.op = "lock"
    /\ \E p, q \in Submitters :
         /\ p # q
         /\ fn.sub[p].pc \in {"account", "done"} /\ fn.sub[p].rctx.ctr_src # << >>
         /\ fn.sub[p].commands = 2 /\ fn.sub[p].seen = 1
         /\ fn.sub[q].commands > 0 /\ fn.sub[q].seen = 2
         /\ fn.sub[q].wptr = (fn.sub[p].wptr + 2) % dev.ring.size

-----------------------------------------------------------------------------
(* Specification SpecAlign: mtk_is_sg_aligned applied to drawn inputs *)

AlignOffsets == {0, 16, 32}
AlignLengths == {8, 16}
AlignBlksz == {8, 16}

SgLists(offsets, lengths) ==
    UNION { [1..n -> { Seg(0, o, l) : o \in offsets, l \in lengths }] : n \in 0..MaxSegs }

AlignLens == {0} \cup { 4 * k : k \in 1..(4 * MaxSegs + 1) }

InitAlign ==
    /\ ctx = InitCtx /\ dev = DevIdle /\ reqs = << >>
    /\ fn \in { [op |-> "is_sg_aligned", sg |-> s, len |-> l, blksz |-> b,
              done |-> FALSE, ret |-> FALSE] :
               s \in SgLists(AlignOffsets, AlignLengths), l \in AlignLens, b \in AlignBlksz }

CallIsSgAligned ==
    /\ fn.op = "is_sg_aligned"
    /\ ~fn.done
    /\ fn' = [fn EXCEPT !.done = TRUE,
                        !.ret = mtk_is_sg_aligned(fn.sg, fn.len, fn.blksz)]
    /\ UNCHANGED << ctx, dev, reqs >>

NextAlign == CallIsSgAligned

SpecAlign == InitAlign /\ [][NextAlign]_vars

\* C8: mtk_is_sg_aligned returns true only if every segment up to the cut point
\* starts 32-byte aligned, every segment before the cut segment has a block-size
\* aligned length and the bytes consumed in the cut segment are block-size
\* aligned; it returns false when the list ends before len bytes and whenever the
\* first segment's offset is not 32-byte aligned, for every len (0 included).
C8_AlignedOnlyIf ==
    (fn.op = "is_sg_aligned" /\ fn.done) =>
        LET c == CutSeg(fn.sg, fn.len) IN
        /\ fn.ret =>
              /\ c >= 1
              /\ \A k \in 1..c : fn.sg[k].offset % 32 = 0
              /\ \A k \in 1..(c - 1) : fn.sg[k].length % fn.blksz = 0
              /\ (fn.len - SgBytes(fn.sg, c - 1)) % fn.blksz = 0
        /\ (c = 0 => ~fn.ret)
        /\ (fn.sg # << >> /\ fn.sg[1].offset % 32 # 0 => ~fn.ret)

\* a multi-segment list accepted as aligned, with a cut inside its last segment
C8_Witness ==
    /\ fn.op = "is_sg_aligned" /\ fn.done /\ fn.ret
    /\ Len(fn.sg) = 2 /\ CutSeg(fn.sg, fn.len) = 2
    /\ fn.len < SgBytes(fn.sg, 2)
    /\ fn.blksz = 8

-----------------------------------------------------------------------------
(* Specification SpecSetkey: up to MaxSetkey setkey calls on one transform *)

\* key lengths offered to the skcipher setkey entry
SkKeyLens == {0, 8, 16, 20, 24, 28, 32, 36, 40}

\* cipher key lengths offered inside an authenc key blob
AeadEncLens == {3, 8, 16, 17, 20, 24, 32, 36}

AeadAuthLens == {20, 80}

SetkeyEnv == {"ok", "badblob", "nomem", "hashfail"}

InitSetkey ==
    \E t \in Tfms, fb \in BOOLEAN :
        /\ fb => Tmpl[t].type = "skcipher"
        /\ ctx = [InitCtx EXCEPT ![t] = CtxInit(fb)]
        /\ dev = DevIdle /\ reqs = << >>
        /\ fn = [op |-> "setkey", tfm |-> t, n |-> 0, cipherlen |-> 0, ret |-> "NONE",
                 before |-> SaZero, len |-> 0, authkeylen |-> 0, weak |-> FALSE,
                 fbfail |-> FALSE, env |-> "ok"]

\* the setkey entry of a skcipher transform: crypto_skcipher_setkey() of the host
\* framework refuses a length outside [min_keysize, max_keysize] of the template
\* and hands every other key to mtk_skcipher_setkey
SkcipherSetkey ==
    /\ fn.op = "setkey" /\ fn.n < MaxSetkey
    /\ Tmpl[fn.tfm].type = "skcipher"
    /\ \E len \in SkKeyLens, weak \in BOOLEAN, fbfail \in BOOLEAN :
        LET t == fn.tfm
            tmpl == Tmpl[t]
            inrange == len >= tmpl.min_keysize /\ len <= tmpl.max_keysize
            r == IF inrange
                 THEN mtk_skcipher_setkey(ctx[t], tmpl, fn.n + 1, len, weak, fbfail)
                 ELSE [ret |-> "EINVAL", ctx |-> ctx[t]]
        IN  /\ weak => AlgOf(tmpl.flags) \in {"DES", "3DES"}
            /\ fbfail => ctx[t].fallback
            /\ ctx' = [ctx EXCEPT ![t] = r.ctx]
            /\ fn' = [fn EXCEPT
                        !.n = @ + 1,
                        !.cipherlen = IF IS_RFC3686(tmpl.flags)
                                      THEN len - CTR_RFC3686_NONCE_SIZE ELSE len,
                        !.ret = r.ret,
                        !.before = ctx[t].sa,
                        !.len = len, !.weak = weak, !.fbfail = fbfail]
    /\ UNCHANGED << dev, reqs >>

\* the setkey entry of an AEAD transform: mtk_aead_setkey
AeadSetkey ==
    /\ fn.op = "setkey" /\ fn.n < MaxSetkey
    /\ Tmpl[fn.tfm].type = "aead"
    /\ \E enckeylen \in AeadEncLens, authkeylen \in AeadAuthLens, env \in SetkeyEnv :
        LET t == fn.tfm
            tmpl == Tmpl[t]
            r == mtk_aead_setkey(ctx[t], tmpl, fn.n + 1, fn.n + 1, enckeylen,
                                 authkeylen, env)
        IN  /\ ctx' = [ctx EXCEPT ![t] = r.ctx]
            /\ fn' = [fn EXCEPT
                        !.n = @ + 1,
                        !.cipherlen = IF IS_RFC3686(tmpl.flags)
                                      THEN enckeylen - CTR_RFC3686_NONCE_SIZE
                                      ELSE enckeylen,
                        !.ret = r.ret,
                        !.before = ctx[t].sa,
                        !.len = enckeylen, !.authkeylen = authkeylen, !.env = env]
    /\ UNCHANGED << dev, reqs >>

NextSetkey == SkcipherSetkey \/ AeadSetkey

SpecSetkey == InitSetkey /\ [][NextSetkey]_vars

\* the cipher key lengths an algorithm accepts
AcceptedKeyLens(alg) ==
    CASE alg = "AES" -> {16, 24, 32}
      [] alg = "DES" -> {DES_KEY_SIZE}
      [] alg = "3DES" -> {DES3_EDE_KEY_SIZE}

\* C9: a setkey call (skcipher or AEAD) whose cipher key length, the nonce
\* removed for RFC3686, is not one the transform's algorithm accepts returns
\* the invalid-key-length error.
C9_BadKeyLenRejected ==
    (fn.op = "setkey" /\ fn.n > 0 /\ AlgOf(Tmpl[fn.tfm].flags) # "NONE"
        /\ fn.cipherlen \notin AcceptedKeyLens(AlgOf(Tmpl[fn.tfm].flags)))
    => fn.ret = "EINVAL"

\* C10: a setkey call that returns an error leaves the SA record of the
\* transform as it was before the call.
C10_FailedSetkeyKeepsSa ==
    (fn.op = "setkey" /\ fn.n > 0 /\ fn.ret # "OK") => ctx[fn.tfm].sa = fn.before

\* the SA record a transform straight out of cra_init holds after the setkey
\* call fn records
FreshSa ==
    LET t == fn.tfm
        c == CtxInit(ctx[t].fallback)
    IN  IF Tmpl[t].type = "skcipher"
        THEN mtk_skcipher_setkey(c, Tmpl[t], fn.n, fn.len, fn.weak, fn.fbfail).ctx.sa
        ELSE mtk_aead_setkey(c, Tmpl[t], fn.n, fn.n, fn.len, fn.authkeylen, fn.env).ctx.sa

\* C38: after a successful setkey the SA record of the transform depends on the
\* arguments of that call only: it is the record a transform that never had a
\* key holds after the same call.
C38_SaFromLastKeyOnly ==
    (fn.op = "setkey" /\ fn.n > 0 /\ fn.ret = "OK") => ctx[fn.tfm].sa = FreshSa

\* the keylen argument the last setkey call handed to mtk_ctx_saRecord
SetkeyKeylen == IF Tmpl[fn.tfm].type = "aead" THEN fn.len ELSE fn.cipherlen

\* the four bytes that follow the cipher key in the blob of an RFC3686 setkey:
\* the last four bytes of the blob
SetkeyNonce ==
    [i \in 1..CTR_RFC3686_NONCE_SIZE |->
        KeyByte(fn.n, (IF Tmpl[fn.tfm].type = "aead"
                       THEN fn.len - CTR_RFC3686_NONCE_SIZE ELSE fn.cipherlen) + i)]

\* C39: after a successful setkey the SA record holds cipher 3/1/0/15 for
\* AES/3DES/DES/none, hash 3/2/1/0/15 for SHA256/SHA224/SHA1/MD5/none with the
\* save-hash bit clear exactly for none, mode 0/1/2 for ECB/CBC/CTR, AES key
\* length keylen / 8, the HMAC, copy-digest and copy-header bits set exactly
\* when the HMAC flag is set, and the nonce of the call for RFC3686 while every
\* other algorithm leaves the nonce field as it was.
C39_SaEncoding ==
    (fn.op = "setkey" /\ fn.n > 0 /\ fn.ret = "OK") =>
        LET f == Tmpl[fn.tfm].flags
            sa == ctx[fn.tfm].sa
            hm == IF "HMAC" \in f THEN 1 ELSE 0
        IN  /\ "AES" \in f => sa.cipher = 3 /\ sa.aesKeyLen = SetkeyKeylen \div 8
            /\ "3DES" \in f => sa.cipher = 1
            /\ "DES" \in f => sa.cipher = 0
            /\ f \cap {"AES", "3DES", "DES"} = {} => sa.cipher = 15
            /\ "SHA256" \in f => sa.hash = 3
            /\ "SHA224" \in f => sa.hash = 2
            /\ "SHA1" \in f => sa.hash = 1
            /\ "MD5" \in f => sa.hash = 0
            /\ f \cap {"SHA256", "SHA224", "SHA1", "MD5"} = {} => sa.hash = 15
            /\ sa.saveHash = (IF f \cap {"SHA256", "SHA224", "SHA1", "MD5"} = {} THEN 0 ELSE 1)
            /\ "ECB" \in f => sa.cipherMode = 0
            /\ "CBC" \in f => sa.cipherMode = 1
            /\ "CTR" \in f => sa.cipherMode = 2
            /\ sa.hmac = hm /\ sa.copyDigest = hm /\ sa.copyHeader = hm
            /\ sa.saNonce = (IF "RFC3686" \in f THEN SetkeyNonce ELSE fn.before.saNonce)

\* the second setkey of authenc(hmac(sha1),rfc3686(ctr(aes))) stored a 20-byte
\* cipher key and a nonce other than the one the first call stored
C39_Witness ==
    /\ fn.op = "setkey" /\ fn.n = 2 /\ fn.ret = "OK"
    /\ fn.tfm = "authenc_hmac_sha1_rfc3686_aes" /\ fn.len = 20
    /\ ctx[fn.tfm].sa.aesKeyLen = 2 /\ ctx[fn.tfm].sa.hash = 1
    /\ ctx[fn.tfm].sa.cipherMode = 2 /\ ctx[fn.tfm].sa.hmac = 1
    /\ ctx[fn.tfm].sa.saNonce = SetkeyNonce
    /\ ctx[fn.tfm].sa.saNonce # fn.before.saNonce
    /\ fn.before.saNonce # << 0, 0, 0, 0 >>

-----------------------------------------------------------------------------
(* Specification SpecCombine: one mtk_scatter_combine call on an empty ring *)

CombineLengths == {0, 4, 8}

\* the lists of up to MaxSegs segments, segment i at bus address base + 64 * i
CombineLists(base) ==
    { [i \in 1..Len(l) |-> Seg(base + 64 * i, 0, l[i])] :
        l \in UNION { [1..k -> CombineLengths] : k \in 1..MaxSegs } }

InitCombine ==
    /\ ctx = InitCtx /\ dev = DevIdle /\ reqs = << >>
    /\ \E src \in CombineLists(0), dst \in CombineLists(1024), cut \in {0, 4} :
          /\ SgBytes(src, Len(src)) >= SgBytes(dst, Len(dst))
          /\ SgBytes(dst, Len(dst)) > cut
          /\ fn = [op |-> "scatter_combine", src |-> src, dst |-> dst,
                   datalen |-> SgBytes(dst, Len(dst)) - cut,
                   done |-> FALSE, status |-> "none", commands |-> 0, results |-> 0,
                   complete |-> FALSE,
                   ring |-> RingNew(2 * MaxSegs + 1, 2 * MaxSegs - 1)]

CallScatterCombine ==
    /\ fn.op = "scatter_combine" /\ ~fn.done
    /\ \E complete \in BOOLEAN :
        \E r \in { mtk_scatter_combine(fn.ring, 0, 0, fn.src, fn.dst, fn.datalen,
                                        complete, 1) } :
            fn' = [fn EXCEPT !.done = TRUE, !.status = r.status,
                             !.complete = complete,
                             !.commands = r.commands, !.results = r.results,
                             !.ring = r.ring]
    /\ UNCHANGED << ctx, dev, reqs >>

\* the same call with source and destination exchanged
CallScatterCombineSwapped ==
    /\ fn.op = "scatter_combine" /\ ~fn.done
    /\ \E complete \in BOOLEAN :
        \E r \in { mtk_scatter_combine(fn.ring, 0, 0, fn.dst, fn.src, fn.datalen,
                                        complete, 1) } :
            fn' = [fn EXCEPT !.done = TRUE, !.status = r.status,
                             !.complete = complete,
                             !.commands = r.commands, !.results = r.results,
                             !.ring = r.ring, !.src = fn.dst, !.dst = fn.src]
    /\ UNCHANGED << ctx, dev, reqs >>

NextCombine == CallScatterCombine \/ CallScatterCombineSwapped

SpecCombine == InitCombine /\ [][NextCombine]_vars

\* sg_nents_for_len(): the segments of a list that hold its first len bytes
NentsForLen(sg, len) == CutSeg(sg, len)

\* C5: on lists of m and n segments that hold the requested bytes,
\* mtk_scatter_combine ends normally having produced at least one and at most
\* m + n - 1 descriptor pairs, as many command as result descriptors, all of
\* them in the ring; with single-segment lists it produces exactly one.
C5_PairCountBound ==
    (fn.op = "scatter_combine" /\ fn.done) =>
        LET m == NentsForLen(fn.src, fn.datalen)
            n == NentsForLen(fn.dst, fn.datalen)
        IN  /\ fn.status = "ok"
            /\ fn.commands >= 1
            /\ fn.commands <= m + n - 1
            /\ fn.commands = fn.results
            /\ RingCount(fn.ring) = fn.commands
            /\ fn.ring.rdr.write = fn.ring.cdr.write
            /\ (Len(fn.src) = 1 /\ Len(fn.dst) = 1 => fn.commands = 1)

\* a call that reached the bound with three source and two destination segments
C5_Witness ==
    /\ fn.op = "scatter_combine" /\ fn.done /\ fn.status = "ok"
    /\ Len(fn.src) = 3 /\ Len(fn.dst) = 2
    /\ fn.commands = 4

\* the ring slot of the k-th descriptor pair (k = 0, 1, ...) the call wrote; the
\* ring of InitCombine starts at slot 2 * MaxSegs - 1
CombineSlot(k) == (2 * MaxSegs - 1 + k) % fn.ring.size

\* the bytes covered by the first k descriptor pairs of the call
RECURSIVE CombineBytes(_)
CombineBytes(k) ==
    IF k = 0 THEN 0 ELSE CombineBytes(k - 1) + fn.ring.cdesc[CombineSlot(k - 1)].length

\* the segment of list sg that holds byte p (counted from 0)
SegOfByte(sg, p) == CHOOSE j \in 1..Len(sg) : SgBytes(sg, j - 1) <= p /\ p < SgBytes(sg, j)

\* the smallest of three
Min3(a, b, c) == IF a <= b /\ a <= c THEN a ELSE IF b <= c THEN b ELSE c

\* a descriptor address addr is byte p of list sg, inside segment j
PairInSeg(sg, j, p, addr) ==
    /\ SgBytes(sg, j - 1) <= p /\ p <= SgBytes(sg, j)
    /\ addr = sg[j].addr + (p - SgBytes(sg, j - 1))

C23_LastFlagsOnLastPair ==
    (fn.op = "scatter_combine" /\ fn.done) =>
        /\ fn.commands >= 1
        /\ \A k \in 0..(fn.commands - 1) :
              LET flags == fn.ring.dma_buf[CombineSlot(k)].flags
              IN  /\ "LAST" \in flags <=> k = fn.commands - 1
                  /\ "FINISH" \in flags <=> (k = fn.commands - 1 /\ fn.complete)

\* a call with complete that wrote three pairs
C23_Witness ==
    /\ fn.op = "scatter_combine" /\ fn.done /\ fn.complete /\ fn.commands = 3
    /\ "FINISH" \in fn.ring.dma_buf[CombineSlot(2)].flags

=============================================================================
